---- MODULE Spec2Model ----
(***************************************************************************)
(* PhotoSorter: the similarity / clustering / ordering core.               *)
(*                                                                         *)
(* Python lists are modelled as TLA+ sequences: the element at Python      *)
(* index i is s[i + 1].  Index VALUES (positions, original indices, row    *)
(* indices held in a cluster) are kept 0-based as in the code.             *)
(***************************************************************************)
EXTENDS Integers, Sequences, FiniteSets, TLC

VARIABLES
    pc,                 \* "call": arguments bound, body not run; "done": returned or raised
    paths,              \* build_ordered_sequence: argument paths
    labels,             \* build_ordered_sequence: argument labels
    original_indices,   \* build_ordered_sequence: keyword argument, None when omitted
    clusters,           \* build_ordered_sequence: the local dict when the call ended
    ordered,            \* build_ordered_sequence: the local list when the call ended
    rows,               \* build_ordered_sequence: the loop variable idx at each append
    raised,             \* the exception that left the call, NoError when it returned
    dist,               \* cluster: argument dist, a list of rows
    distance_threshold, \* cluster: argument distance_threshold
    linkage,            \* cluster: argument linkage
    result,             \* cluster: the ClusterResult returned
    fit_calls,          \* cluster: number of calls of clusterer.fit_predict
    embeddings,         \* compute_similarity_matrix: argument embeddings, a list of rows
    similarity,         \* compute_distance_matrix: argument similarity, a list of rows
    temporal_weight,    \* compute_distance_matrix: argument temporal_weight
    distance,           \* compute_distance_matrix: the matrix returned
    args,               \* PipelineParams(...): the arguments of the constructor
    params,             \* the PipelineParams instance, None while none exists
    on_progress,        \* run_pipeline_shared: argument on_progress, None when omitted
    env,                \* the file system: is input_dir a directory, its images, which of them load
    log,                \* run_pipeline_shared: its emit() calls and collaborator calls and returns, in order
    discovered,         \* run_pipeline_shared: the list discover_images_fn returned
    valid_indices,      \* run_pipeline_shared: the indices extract_embeddings_fn returned
    outcome,            \* run_pipeline_shared: the PipelineOutcome returned, None before
    listings,           \* discover_images: what input_dir.iterdir() yields in each of two runs
    found,              \* discover_images: the list returned in each of the two runs
    parameters,         \* build_pipeline_params: argument parameters, a dict
    stdout,             \* _handle_run: the objects it has passed to _emit, in order
    exit_status         \* _handle_run: None while it runs, then the exit status of the process

orderingVars == <<paths, labels, original_indices, clusters, ordered, rows, raised>>
clusterVars == <<dist, distance_threshold, linkage, result, fit_calls>>
distanceVars == <<embeddings, similarity, temporal_weight, distance>>
callerVars == <<listings, found, parameters, stdout, exit_status>>
pipelineVars ==
    <<args, params, on_progress, env, log, discovered, valid_indices, outcome, callerVars>>
vars == <<pc, orderingVars, clusterVars, distanceVars, pipelineVars>>

\* original_indices=None is the empty set, original_indices=lst the set {lst}.
None == {}
Some(v) == {v}
ValueOf(opt) == CHOOSE v \in opt : TRUE

NoError == "NoError"

-----------------------------------------------------------------------------
(* Bounds of the model.                                                    *)

\* Largest number of items (paths, labels, original indices) of one call.
MaxN == 3

PathNames == {"a.jpg", "b.jpg"}
LabelValues == {0, 1, 2}
OriginalIndexValues == 0 .. MaxN

SeqsUpTo(S, n) == UNION {[1 .. k -> S] : k \in 0 .. n}

\* Largest number of photos handed to cluster().
MaxPoints == 3
\* Thresholds are 1 .. MaxThreshold; distances reach one unit beyond.
MaxThreshold == 2

Thresholds == 1 .. MaxThreshold
DistValues == 0 .. MaxThreshold + 1
LinkageOptions == {"average", "complete", "single"}

\* Largest number of rows of a similarity matrix.
MaxDim == 3
\* temporal_weight is 0, 0.5, ..., MaxWeightSteps * 0.5.
MaxWeightSteps == 2
\* Largest number of images in the input directory of a pipeline run.
MaxImages == 3
\* Largest size of a group of a block-structured distance matrix.
GroupSize == 3
\* Largest number of rows and the number of columns of an embedding matrix.
MaxEmbeddings == 2
EmbeddingDim == 2

\* Floats of similarity.py are fixed-point numbers: FixOne stands for 1.0 and
\* 1 for the resolution of the arithmetic, below which a product is rounded
\* away (as 1.0 + 1e-17 * 0.5 is 1.0 in float64).  With weights in steps of
\* 0.5 every quotient by max(n - 1, 1) is exact for n <= 5.
FixOne == 2 * 3 * 4
\* 0, 0.5, 1.0, ... and one weight of the size of the resolution.
TemporalWeights == {k * (FixOne \div 2) : k \in 0 .. MaxWeightSteps} \cup {FixOne \div FixOne}
\* Off the diagonal: -1.0, 0.0, 1.0 and a value just outside [-1, 1] on
\* either side (floating-point noise).  On the diagonal, the squared norm of a
\* normalised row: 1.0 or a value just above it.
SimilarityValues == {0 - FixOne - 1, 0 - FixOne, 0, FixOne, FixOne + 1}
DiagonalValues == {FixOne, FixOne + 1}
\* Components of an embedding: -1.0, 0.0, 0.5 and 1.0.
EmbeddingValues == {0 - FixOne, 0, FixOne \div 2, FixOne}

-----------------------------------------------------------------------------
(* Python helpers.                                                         *)

\* min(S)
SetMin(S) == CHOOSE m \in S : \A x \in S : m <= x

\* list(range(n))
Range(n) == [k \in 1 .. n |-> k - 1]

\* lst[i] for a 0-based index i known to be in range
At(lst, i) == lst[i + 1]

-----------------------------------------------------------------------------
(* ordering.py: build_ordered_sequence                                     *)

\* OrderedPhoto(position=..., original_index=..., path=..., cluster_id=...)
OrderedPhoto(position, original_index, path, cluster_id) ==
    [position |-> position, original_index |-> original_index,
     path |-> path, cluster_id |-> cluster_id]

\* Faulty variant of DictAppend: assignment instead of append, clusters[label] = [idx].
DictAppendOverwrite(d, label, idx) ==
    IF \E k \in 1 .. Len(d) : d[k].cid = label
    THEN [k \in 1 .. Len(d) |->
             IF d[k].cid = label THEN [cid |-> label, members |-> <<idx>>] ELSE d[k]]
    ELSE Append(d, [cid |-> label, members |-> <<idx>>])

\* Faulty variant of DictAppend: insert(0, idx) instead of append(idx).
DictAppendFront(d, label, idx) ==
    IF \E k \in 1 .. Len(d) : d[k].cid = label
    THEN [k \in 1 .. Len(d) |->
             IF d[k].cid = label
             THEN [cid |-> label, members |-> <<idx>> \o d[k].members]
             ELSE d[k]]
    ELSE Append(d, [cid |-> label, members |-> <<idx>>])

\* clusters[int(label)].append(idx) on a defaultdict(list).  The dict is the
\* sequence of its (key, value) entries in insertion order.
DictAppend(d, label, idx) ==
    IF \E k \in 1 .. Len(d) : d[k].cid = label
    THEN [k \in 1 .. Len(d) |->
             IF d[k].cid = label
             THEN [cid |-> label, members |-> Append(d[k].members, idx)]
             ELSE d[k]]
    ELSE Append(d, [cid |-> label, members |-> <<idx>>])

\* for idx, label in enumerate(labels): clusters[int(label)].append(idx)
RECURSIVE GroupByLabel(_, _, _)
GroupByLabel(lbls, idx, d) ==
    IF idx >= Len(lbls) THEN d
    ELSE GroupByLabel(lbls, idx + 1, DictAppend(d, At(lbls, idx), idx))

\* Faulty variant of ClusterSortKey: the clusters are sorted by their label.
ClusterSortKeyByLabel(entry) == entry.cid

\* The sort key of line 37: lambda cid: clusters[cid][0]
ClusterSortKey(entry) == At(entry.members, 0)

\* One insertion of a stable sort: e goes after every element whose key is <= its own.
RECURSIVE StableInsert(_, _)
StableInsert(s, e) ==
    IF s = <<>> THEN <<e>>
    ELSE IF ClusterSortKey(e) < ClusterSortKey(Head(s))
         THEN <<e>> \o s
         ELSE <<Head(s)>> \o StableInsert(Tail(s), e)

\* sorted(clusters.keys(), key=lambda cid: clusters[cid][0]); the entries are
\* carried along with their keys.
RECURSIVE SortedClusters(_)
SortedClusters(d) ==
    IF d = <<>> THEN <<>>
    ELSE StableInsert(SortedClusters(SubSeq(d, 1, Len(d) - 1)), d[Len(d)])

\* The row indices in the order the nested loops of lines 41-42 visit them,
\* each paired with its cluster id.
RECURSIVE VisitOrder(_)
VisitOrder(sortedEntries) ==
    IF sortedEntries = <<>> THEN <<>>
    ELSE LET e == Head(sortedEntries)
         IN  [k \in 1 .. Len(e.members) |-> [cid |-> e.cid, idx |-> e.members[k]]]
             \o VisitOrder(Tail(sortedEntries))

\* Lines 39-49: the records appended before the loops end or a subscript fails.
\* original_indices[idx] and paths[idx] raise IndexError for idx >= len.
\* `position` is Len(acc): it starts at 0 and grows by one with every append.
RECURSIVE EmitRecords(_, _, _, _, _)
EmitRecords(visit, pths, oidx, acc, idxs) ==
    IF visit = <<>> THEN [raised |-> NoError, ordered |-> acc, rows |-> idxs]
    ELSE LET v == Head(visit)
         IN  IF v.idx >= Len(oidx) \/ v.idx >= Len(pths)
             THEN [raised |-> "IndexError", ordered |-> acc, rows |-> idxs]
             ELSE EmitRecords(Tail(visit), pths, oidx,
                      Append(acc, OrderedPhoto(Len(acc), At(oidx, v.idx),
                                               At(pths, v.idx), v.cid)),
                      Append(idxs, v.idx))

\* Faulty variant of EffectiveOriginalIndices: a list of the wrong length is replaced by
\* the default instead of being rejected.
EffectiveOriginalIndicesLenient(pths, oidx) ==
    IF oidx = None \/ Len(ValueOf(oidx)) # Len(pths)
    THEN Range(Len(pths))
    ELSE ValueOf(oidx)

\* Lines 27-28: the default of the keyword argument.
EffectiveOriginalIndices(pths, oidx) ==
    IF oidx = None THEN Range(Len(pths)) ELSE ValueOf(oidx)

\* The whole call: what it raised and the locals at its end.  The call returns
\* `ordered` exactly when nothing was raised.
build_ordered_sequence(pths, lbls, oidx) ==
    LET eff == EffectiveOriginalIndices(pths, oidx)
    IN  IF Len(eff) # Len(pths)
        THEN [raised |-> "ValueError", clusters |-> <<>>, ordered |-> <<>>,
              rows |-> <<>>]
        ELSE LET d == GroupByLabel(lbls, 0, <<>>)
                 out == EmitRecords(VisitOrder(SortedClusters(d)), pths, eff,
                                    <<>>, <<>>)
             IN  [raised |-> out.raised, clusters |-> d, ordered |-> out.ordered,
                  rows |-> out.rows]

-----------------------------------------------------------------------------
(* similarity.py: compute_distance_matrix                                  *)

Abs(a) == IF a < 0 THEN 0 - a ELSE a

\* Entry [i, j] of embeddings @ embeddings.T: the dot product of rows i and j.
DotProduct(a, b) ==
    LET Sum[k \in 0 .. Len(a)] ==
            IF k = 0 THEN 0 ELSE Sum[k - 1] + (a[k] * b[k]) \div FixOne
    IN  Sum[Len(a)]

\* compute_similarity_matrix(embeddings)
compute_similarity_matrix(emb) ==
    [r \in 1 .. Len(emb) |-> [c \in 1 .. Len(emb) |-> DotProduct(emb[r], emb[c])]]

\* Faulty variant of Clip: only the upper limit is applied.
ClipUpperOnly(v, lo, hi) == IF v > hi THEN hi ELSE v

\* np.clip(v, lo, hi)
Clip(v, lo, hi) == IF v < lo THEN lo ELSE IF v > hi THEN hi ELSE v

\* Faulty variant of Temporal: the index distance is not normalised by max(n - 1, 1).
TemporalNotNormalised(i, j, n) == Abs(i - j) * FixOne

\* Faulty variant of Temporal: the indices are added instead of subtracted.
TemporalOfSum(i, j, n) == ((i + j) * FixOne) \div (IF n - 1 > 1 THEN n - 1 ELSE 1)

\* Faulty variant of Temporal: every pair of different indices is equally far.
TemporalIndicator(i, j, n) == IF i = j THEN 0 ELSE FixOne

\* Faulty variant of Temporal: the difference of the indices keeps its sign.
TemporalSigned(i, j, n) == ((i - j) * FixOne) \div (IF n - 1 > 1 THEN n - 1 ELSE 1)

\* Line 21: temporal[i, j] = |i - j| / max(n - 1, 1)
Temporal(i, j, n) == (Abs(i - j) * FixOne) \div (IF n - 1 > 1 THEN n - 1 ELSE 1)

\* Faulty variant of DistanceEntry: the clip is applied after the temporal term.
DistanceEntryClippedLast(sim, w, i, j) ==
    Clip(FixOne - sim[i + 1][j + 1] + (w * Temporal(i, j, Len(sim))) \div FixOne,
         0, 2 * FixOne)

\* Lines 16-24, entry [i, j] of the result for an n x n similarity matrix.
DistanceEntry(sim, w, i, j) ==
    LET base == Clip(FixOne - sim[i + 1][j + 1], 0, 2 * FixOne)
    IN  IF w > 0
        THEN base + (w * Temporal(i, j, Len(sim))) \div FixOne
        ELSE base

\* compute_distance_matrix(similarity, temporal_weight)
compute_distance_matrix(sim, w) ==
    [r \in 1 .. Len(sim) |-> [c \in 1 .. Len(sim) |->
        DistanceEntry(sim, w, r - 1, c - 1)]]

-----------------------------------------------------------------------------
(* clustering.py: cluster, with the library code it runs                   *)
(* (sklearn AgglomerativeClustering.fit_predict on a precomputed matrix,   *)
(* which builds the full tree with scipy.cluster.hierarchy.linkage and     *)
(* cuts it at distance_threshold).                                         *)

\* Float distances are carried as integer multiples of 1/DistScale of a unit,
\* which keeps the divisions of average linkage exact for up to 5 points.
DistScale == 3 * 4
Infinity == DistScale * FixOne * (MaxThreshold + 2)

\* dist.shape[0]
Shape0(m) == Len(m)

\* The key of the pair {i, j} in scipy's condensed distance vector.
Cond(i, j) == IF i < j THEN <<i, j>> ELSE <<j, i>>

\* sklearn linkage_tree: i, j = np.triu_indices(n, k=1); X = X[i, j]
Condensed(m) ==
    LET n == Shape0(m)
    IN  [p \in {<<i, j>> \in (0 .. n - 1) \X (0 .. n - 1) : i < j} |->
            DistScale * m[p[1] + 1][p[2] + 1]]

Max(a, b) == IF a >= b THEN a ELSE b

\* Faulty variant of NewDist: the nearer of the two merged clusters decides.
NewDistOfNearer(method, dxi, dyi, nx, ny) == IF dxi <= dyi THEN dxi ELSE dyi

\* scipy linkage_methods: the distance from cluster i to the merge of x and y.
NewDist(method, dxi, dyi, nx, ny) ==
    CASE method = "complete" -> Max(dxi, dyi)
      [] method = "average" -> (nx * dxi + ny * dyi) \div (nx + ny)

\* nn_chain, inner for loop: the nearest active neighbour of x, scanning i
\* upwards from `i` and replacing (cur, y) only on a strictly smaller distance.
RECURSIVE NearestNeighbour(_, _, _, _, _, _, _)
NearestNeighbour(D, size, n, x, i, cur, y) ==
    IF i >= n THEN [min |-> cur, y |-> y]
    ELSE IF size[i] = 0 \/ i = x
         THEN NearestNeighbour(D, size, n, x, i + 1, cur, y)
         ELSE IF D[Cond(x, i)] < cur
              THEN NearestNeighbour(D, size, n, x, i + 1, D[Cond(x, i)], i)
              ELSE NearestNeighbour(D, size, n, x, i + 1, cur, y)

\* nn_chain, while True: grow the chain until its last two elements are
\* mutual nearest neighbours; the chain's previous element wins ties.
RECURSIVE GrowChain(_, _, _, _, _)
GrowChain(D, size, n, chain, yPrev) ==
    LET x == chain[Len(chain)]
        y0 == IF Len(chain) > 1 THEN chain[Len(chain) - 1] ELSE yPrev
        cur0 == IF Len(chain) > 1 THEN D[Cond(x, y0)] ELSE Infinity
        nn == NearestNeighbour(D, size, n, x, 0, cur0, y0)
    IN  IF Len(chain) > 1 /\ nn.y = chain[Len(chain) - 1]
        THEN [chain |-> chain, x |-> x, y |-> nn.y, min |-> nn.min]
        ELSE GrowChain(D, size, n, Append(chain, nn.y), nn.y)

\* nn_chain: first i with size[i] > 0
FirstActive(size, n) == CHOOSE i \in 0 .. n - 1 :
                            size[i] > 0 /\ \A j \in 0 .. i - 1 : size[j] = 0

\* nn_chain, for k in range(n - 1): one merge per iteration.  Z collects the
\* rows (x, y, distance) before they are sorted.
RECURSIVE NNChainLoop(_, _, _, _, _, _, _, _)
NNChainLoop(method, D, size, n, chain, yPrev, k, Z) ==
    IF k >= n - 1 THEN Z
    ELSE LET start == IF chain = <<>> THEN <<FirstActive(size, n)>> ELSE chain
             g == GrowChain(D, size, n, start, yPrev)
             x == IF g.x > g.y THEN g.y ELSE g.x
             y == IF g.x > g.y THEN g.x ELSE g.y
             nx == size[x]
             ny == size[y]
             size2 == [size EXCEPT ![x] = 0, ![y] = nx + ny]
             D2 == [p \in DOMAIN D |->
                      IF y \in {p[1], p[2]}
                      THEN LET i == IF p[1] = y THEN p[2] ELSE p[1]
                           IN  IF size2[i] = 0 THEN D[p]
                               ELSE NewDist(method, D[Cond(i, x)], D[Cond(i, y)],
                                            nx, ny)
                      ELSE D[p]]
         IN  NNChainLoop(method, D2, size2, n,
                         SubSeq(g.chain, 1, Len(g.chain) - 2), y, k + 1,
                         Append(Z, [x |-> x, y |-> y, d |-> g.min]))

\* scipy nn_chain(dists, n, method), before the sort
nn_chain(dists, n, method) ==
    NNChainLoop(method, dists, [i \in 0 .. n - 1 |-> 1], n, <<>>, 0, 0, <<>>)

\* mst_single_linkage, inner for loop over k: lower D[k] to the distance from
\* x and keep the first k of smallest D[k] among the unmerged.
RECURSIVE MstScan(_, _, _, _, _, _, _, _)
MstScan(dists, merged, n, x, k, D, cur, y) ==
    IF k >= n THEN [D |-> D, min |-> cur, y |-> y]
    ELSE IF k \in merged
         THEN MstScan(dists, merged, n, x, k + 1, D, cur, y)
         ELSE LET dk == IF D[k] > dists[Cond(x, k)] THEN dists[Cond(x, k)] ELSE D[k]
                  D2 == [D EXCEPT ![k] = dk]
              IN  IF dk < cur
                  THEN MstScan(dists, merged, n, x, k + 1, D2, dk, k)
                  ELSE MstScan(dists, merged, n, x, k + 1, D2, cur, y)

\* mst_single_linkage, for i in range(n - 1)
RECURSIVE MstLoop(_, _, _, _, _, _, _, _)
MstLoop(dists, merged, n, x, yPrev, D, i, Z) ==
    IF i >= n - 1 THEN Z
    ELSE LET m2 == merged \cup {x}
             sc == MstScan(dists, m2, n, x, 0, D, Infinity, yPrev)
         IN  MstLoop(dists, m2, n, sc.y, sc.y, sc.D, i + 1,
                     Append(Z, [x |-> x, y |-> sc.y, d |-> sc.min]))

\* scipy mst_single_linkage(dists, n), before the sort
mst_single_linkage(dists, n) ==
    MstLoop(dists, {}, n, 0, 0, [k \in 0 .. n - 1 |-> Infinity], 0, <<>>)

\* np.argsort(Z[:, 2], kind='mergesort'): a stable sort by merge distance.
RECURSIVE InsertByDistance(_, _)
InsertByDistance(s, e) ==
    IF s = <<>> THEN <<e>>
    ELSE IF e.d < Head(s).d
         THEN <<e>> \o s
         ELSE <<Head(s)>> \o InsertByDistance(Tail(s), e)

RECURSIVE SortByDistance(_)
SortByDistance(Z) ==
    IF Z = <<>> THEN <<>>
    ELSE InsertByDistance(SortByDistance(SubSeq(Z, 1, Len(Z) - 1)), Z[Len(Z)])

\* scipy label(Z, n): rename the two sides of every sorted merge to the ids of
\* the clusters they lie in (union-find); merge k creates cluster id n + k.
\* nodeOf[p] is the id of the cluster holding point p.
RECURSIVE LabelMerges(_, _, _, _, _)
LabelMerges(Z, n, k, nodeOf, children) ==
    IF k >= Len(Z) THEN children
    ELSE LET xr == nodeOf[Z[k + 1].x]
             yr == nodeOf[Z[k + 1].y]
             lo == IF xr < yr THEN xr ELSE yr
             hi == IF xr < yr THEN yr ELSE xr
         IN  LabelMerges(Z, n, k + 1,
                         [p \in DOMAIN nodeOf |->
                             IF nodeOf[p] \in {xr, yr} THEN n + k ELSE nodeOf[p]],
                         Append(children, <<lo, hi>>))

\* scipy.cluster.hierarchy.linkage(y, method): rows (children, distance)
\* sorted by distance.
LinkageTree(m, method) ==
    LET n == Shape0(m)
        raw == IF method = "single"
               THEN mst_single_linkage(Condensed(m), n)
               ELSE nn_chain(Condensed(m), n, method)
        Z == SortByDistance(raw)
    IN  [children |-> LabelMerges(Z, n, 0, [p \in 0 .. n - 1 |-> p], <<>>),
         distances |-> [k \in 1 .. Len(Z) |-> Z[k].d]]

\* lst[i] = v for a 0-based index i
SetAt(lst, i, v) == [lst EXCEPT ![i + 1] = v]

\* heapq._siftdown(heap, startpos, pos) with newitem taken out of heap[pos]
RECURSIVE SiftDown(_, _, _, _)
SiftDown(heap, startpos, pos, newitem) ==
    IF pos > startpos /\ newitem < At(heap, (pos - 1) \div 2)
    THEN SiftDown(SetAt(heap, pos, At(heap, (pos - 1) \div 2)), startpos,
                  (pos - 1) \div 2, newitem)
    ELSE SetAt(heap, pos, newitem)

\* heapq._siftup(heap, pos), the loop that bubbles the smaller child up
RECURSIVE SiftUpLoop(_, _)
SiftUpLoop(heap, pos) ==
    LET childpos == 2 * pos + 1
        rightpos == childpos + 1
        pick == IF rightpos < Len(heap) /\ ~(At(heap, childpos) < At(heap, rightpos))
                THEN rightpos ELSE childpos
    IN  IF childpos < Len(heap)
        THEN SiftUpLoop(SetAt(heap, pos, At(heap, pick)), pick)
        ELSE [heap |-> heap, pos |-> pos]

\* heapq._siftup(heap, 0)
SiftUp(heap) ==
    LET newitem == At(heap, 0)
        up == SiftUpLoop(heap, 0)
    IN  SiftDown(up.heap, 0, up.pos, newitem)

\* heapq.heappush(heap, item)
HeapPush(heap, item) == SiftDown(Append(heap, item), 0, Len(heap), item)

\* heapq.heappushpop(heap, item), the heap left behind
HeapPushPop(heap, item) ==
    IF heap # <<>> /\ At(heap, 0) < item
    THEN SiftUp(SetAt(heap, 0, item))
    ELSE heap

\* sklearn _hc_cut, for _ in range(n_clusters - 1): replace the newest node of
\* the heap (of negated ids) by its two children.
RECURSIVE CutLoop(_, _, _, _)
CutLoop(nodes, children, n_leaves, todo) ==
    IF todo <= 0 THEN nodes
    ELSE LET these_children == At(children, (0 - At(nodes, 0)) - n_leaves)
         IN  CutLoop(HeapPushPop(HeapPush(nodes, 0 - these_children[1]),
                                 0 - these_children[2]),
                     children, n_leaves, todo - 1)

\* sklearn _hc_get_descendent(node, children, n_leaves): the leaves below node
RECURSIVE Descendents(_, _, _)
Descendents(node, children, n_leaves) ==
    IF node < n_leaves THEN {node}
    ELSE Descendents(At(children, node - n_leaves)[1], children, n_leaves)
         \cup Descendents(At(children, node - n_leaves)[2], children, n_leaves)

\* sklearn _hc_cut(n_clusters, children, n_leaves): label[descendents] = i for
\* the i-th node of the heap list.  The result is the label list.
HcCut(n_clusters, children, n_leaves) ==
    LET root == Max(At(children, Len(children) - 1)[1],
                    At(children, Len(children) - 1)[2]) + 1
        nodes == CutLoop(<<0 - root>>, children, n_leaves, n_clusters - 1)
    IN  [p \in 1 .. n_leaves |->
            (CHOOSE i \in 1 .. Len(nodes) :
                (p - 1) \in Descendents(0 - nodes[i], children, n_leaves)) - 1]

\* Faulty variant of CountNotMerged: a merge at exactly the threshold is not counted
\* as refused (> where the library has >=).
CountNotMergedStrict(distances, threshold) ==
    Cardinality({k \in 1 .. Len(distances) : distances[k] > DistScale * threshold})

\* Faulty variant of CountNotMerged: the comparison the wrong way round.
CountNotMergedReversed(distances, threshold) ==
    Cardinality({k \in 1 .. Len(distances) : distances[k] <= DistScale * threshold})

\* sklearn fit: np.count_nonzero(self.distances_ >= distance_threshold)
CountNotMerged(distances, threshold) ==
    Cardinality({k \in 1 .. Len(distances) : distances[k] >= DistScale * threshold})

\* sklearn fit, after the tree is built: n_clusters_ = count + 1, then
\* labels_ = _hc_cut(n_clusters_, children_, n_leaves_)
CutTree(tree, threshold, n_leaves) ==
    HcCut(CountNotMerged(tree.distances, threshold) + 1, tree.children, n_leaves)

\* AgglomerativeClustering(n_clusters=None, distance_threshold=...,
\* metric="precomputed", linkage=...).fit_predict(dist)
fit_predict(m, threshold, method) ==
    CutTree(LinkageTree(m, method), threshold, Shape0(m))

\* Faulty variant of DistinctCount: len(labels) instead of len(set(labels)).
DistinctCountNoSet(lbls) == Len(lbls)

\* len(set(labels))
DistinctCount(lbls) == Cardinality({lbls[k] : k \in 1 .. Len(lbls)})

\* ClusterResult(labels=..., n_clusters=...)
ClusterResult(lbls, n_clusters) == [labels |-> lbls, n_clusters |-> n_clusters]

\* Lines 27-29: labels = np.zeros(n, dtype=int); n_clusters = max(n, 0)
ShortcutResult(n) ==
    [result |-> ClusterResult([k \in 1 .. n |-> 0], Max(n, 0)), fit_calls |-> 0]

\* Lines 37-40: the result built from the labels that fit_predict returned
FittedResult(lbls) ==
    [result |-> ClusterResult(lbls, DistinctCount(lbls)), fit_calls |-> 1]

\* Faulty variant of cluster_call: the shortcut taken for n <= 2 instead of n < 2.
cluster_call_le2(m, threshold, method) ==
    IF Shape0(m) <= 2
    THEN ShortcutResult(Shape0(m))
    ELSE FittedResult(fit_predict(m, threshold, method))

\* clustering.py lines 20-40: the value returned and the number of times the
\* library's fit_predict ran.
cluster_call(m, threshold, method) ==
    IF Shape0(m) < 2
    THEN ShortcutResult(Shape0(m))
    ELSE FittedResult(fit_predict(m, threshold, method))

\* cluster(dist, distance_threshold, linkage)
cluster(m, threshold, method) == cluster_call(m, threshold, method).result

-----------------------------------------------------------------------------
(* pipeline.py: PipelineParams and validate_pipeline_parameters.           *)

VALID_POOLING_OPTIONS == {"cls", "avg", "cls+avg"}
VALID_PREPROCESS_OPTIONS == {"letterbox", "timm"}
VALID_LINKAGE_OPTIONS == LinkageOptions
VALID_DEVICE_OPTIONS == {"auto", "cpu", "mps", "cuda"}

\* pipeline_runner.py: STEPS
STEPS == <<"discover", "model", "embed", "similarity", "cluster", "output">>

\* Lines 93, 97, 102, 106: `x is not None and x not in options`.  An argument
\* is None or Some(string).
InvalidOption(opt, options) == opt # None /\ ValueOf(opt) \notin options

\* validate_pipeline_parameters(**a): the exception it raises, NoError when it
\* returns.  Numbers are fixed-point, FixOne stands for 1.0; batch_size is an
\* int.
validate_pipeline_parameters(a) ==
    IF a.distance_threshold <= 0 THEN "PipelineArgumentError"
    ELSE IF a.distance_threshold > 2 * FixOne THEN "PipelineArgumentError"
    ELSE IF a.temporal_weight < 0 THEN "PipelineArgumentError"
    ELSE IF a.batch_size < 1 THEN "PipelineArgumentError"
    ELSE IF InvalidOption(a.pooling, VALID_POOLING_OPTIONS) THEN "PipelineArgumentError"
    ELSE IF InvalidOption(a.preprocess, VALID_PREPROCESS_OPTIONS) THEN "PipelineArgumentError"
    ELSE IF InvalidOption(a.linkage, VALID_LINKAGE_OPTIONS) THEN "PipelineArgumentError"
    ELSE IF InvalidOption(a.device, VALID_DEVICE_OPTIONS) THEN "PipelineArgumentError"
    ELSE NoError

\* PipelineParams(**a): __post_init__ validates the fields; the instance
\* exists only when it returns.
PipelineParams(a) ==
    IF validate_pipeline_parameters(a) = NoError
    THEN [raised |-> NoError, instance |-> Some(a)]
    ELSE [raised |-> validate_pipeline_parameters(a), instance |-> None]

-----------------------------------------------------------------------------
(* config.py: DEFAULTS, and pipeline_runner.py: build_pipeline_params.     *)

\* config.py lines 33-45.  distance_threshold 0.2 is the nearest value below
\* it on the fixed-point grid.
DEFAULTS ==
    [batch_size |-> 16,
     pooling |-> "avg",
     preprocess |-> "letterbox",
     device |-> "auto",
     distance_threshold |-> FixOne \div 5,
     linkage |-> "complete",
     temporal_weight |-> 0]

\* pipeline_runner.py lines 53-60: the dicts from display label to value.
device_map == ("Auto" :> "auto") @@ ("Apple GPU" :> "mps") @@ ("CPU" :> "cpu")
pooling_map == ("CLS" :> "cls") @@ ("AVG" :> "avg") @@ ("CLS+AVG" :> "cls+avg")
preprocess_map ==
    ("Letterbox" :> "letterbox") @@ ("TIMM" :> "timm") @@ ("TIMM (strict)" :> "timm")
linkage_map ==
    ("Average" :> "average") @@ ("Complete" :> "complete") @@ ("Single" :> "single")

\* The keys build_pipeline_params reads from its dict.
ParameterKeys ==
    {"device", "batch_size", "pooling", "preprocess", "distance_threshold",
     "linkage", "temporal_weight"}

\* The parameters dict is a function on ParameterKeys: None at a key the dict
\* does not have, Some(value) at a key it has.  The value of an option key is
\* itself None (Python's None) or Some(string).
\* parameters.get(key, default)
Get(d, key, default) == IF d[key] = None THEN default ELSE ValueOf(d[key])

\* A map that leaves every label as it is.
MapGetKeepingLabel(map, raw) == raw

\* map.get(raw, raw) of lines 69, 71, 72, 76, on None or Some(string).
MapGet(map, raw) ==
    IF raw # None /\ ValueOf(raw) \in DOMAIN map
    THEN Some(map[ValueOf(raw)])
    ELSE raw

\* Lines 62-80: the keyword arguments PipelineParams is constructed with.
\* The numbers of the model are already an int (batch_size) and fixed-point
\* floats, on which int() and float() change nothing.
build_pipeline_params_kwargs(d) ==
    [device |-> MapGet(device_map, Get(d, "device", Some("Auto"))),
     batch_size |-> Get(d, "batch_size", DEFAULTS.batch_size),
     pooling |-> MapGet(pooling_map, Get(d, "pooling", Some("AVG"))),
     preprocess |-> MapGet(preprocess_map, Get(d, "preprocess", Some(DEFAULTS.preprocess))),
     distance_threshold |-> Get(d, "distance_threshold", DEFAULTS.distance_threshold),
     linkage |-> MapGet(linkage_map, Get(d, "linkage", Some(DEFAULTS.linkage))),
     temporal_weight |-> Get(d, "temporal_weight", DEFAULTS.temporal_weight)]

\* build_pipeline_params(input_dir, d): the instance it returns or the
\* exception PipelineParams raises.
build_pipeline_params(d) == PipelineParams(build_pipeline_params_kwargs(d))

-----------------------------------------------------------------------------
(* The collaborators of run_pipeline_shared that are not modelled above.   *)

MinOf(a, b) == IF a < b THEN a ELSE b

\* The elements of a set of integers in increasing order.
SortedIndices(S) ==
    [k \in 1 .. Cardinality(S) |->
        CHOOSE i \in S : Cardinality({j \in S : j < i}) = k - 1]

\* pipeline.py line 154: discover_images_fn(input_dir), the images of the
\* directory in natural order.
discover_images_fn(e) == e.images

\* embeddings.py: detect_device(requested), the exception it raises.
detect_device(device) ==
    IF device = None \/ ValueOf(device) \notin VALID_DEVICE_OPTIONS
    THEN "ValueError" ELSE NoError

\* embeddings.py line 403: the number of values of range(0, total, batch_size).
NumBatches(total, batch_size) == (total + batch_size - 1) \div batch_size

\* Line 403: start of the k-th batch (k = 1, 2, ...).
BatchStart(k, batch_size) == (k - 1) * batch_size

\* Line 404: len(paths[start : start + batch_size])
BatchLen(k, total, batch_size) ==
    MinOf(BatchStart(k, batch_size) + batch_size, total) - BatchStart(k, batch_size)

\* Faulty variant of BatchIndices: the position inside the batch is recorded.
BatchIndicesLocal(k, total, batch_size, loads) ==
    LET at == [i \in 1 .. BatchLen(k, total, batch_size) |-> i - 1]
        loaded(i) == BatchStart(k, batch_size) + i \in loads
    IN  SelectSeq(at, loaded)

\* Lines 408-414: batch_indices of the k-th batch, start + i for the images
\* that load, in the order of the batch.
BatchIndices(k, total, batch_size, loads) ==
    LET at == [i \in 1 .. BatchLen(k, total, batch_size) |->
                  BatchStart(k, batch_size) + i - 1]
        loaded(i) == i \in loads
    IN  SelectSeq(at, loaded)

\* Lines 417, 441: processed after the k-th batch.
RECURSIVE ProcessedAfter(_, _, _)
ProcessedAfter(k, total, batch_size) ==
    IF k = 0 THEN 0
    ELSE ProcessedAfter(k - 1, total, batch_size) + BatchLen(k, total, batch_size)

\* Line 439: valid_indices after the k-th batch.
RECURSIVE ValidAfter(_, _, _, _)
ValidAfter(k, total, batch_size, loads) ==
    IF k = 0 THEN <<>>
    ELSE ValidAfter(k - 1, total, batch_size, loads)
            \o BatchIndices(k, total, batch_size, loads)

\* Lines 416-420 and 426: the first batch with an image that loads, where
\* _pool_features is called; the number of batches plus one if there is none.
FirstPooledBatch(total, batch_size, loads) ==
    SetMin({k \in 1 .. NumBatches(total, batch_size) :
                BatchIndices(k, total, batch_size, loads) # <<>>}
           \cup {NumBatches(total, batch_size) + 1})

\* Faulty variant of OnBatchCalls: a batch without a loadable image is not
\* reported.
OnBatchCallsOfLoaded(ended, total, batch_size, loads) ==
    LET counts == [k \in 1 .. ended |-> ProcessedAfter(k, total, batch_size)]
        loaded(c) == \E k \in 1 .. ended :
                        /\ ProcessedAfter(k, total, batch_size) = c
                        /\ BatchIndices(k, total, batch_size, loads) # <<>>
    IN  SelectSeq(counts, loaded)

\* Lines 418-419 and 442-443: on_batch(processed, total) after each of the
\* first `ended` batches.
OnBatchCalls(ended, total, batch_size, loads) ==
    [k \in 1 .. ended |-> ProcessedAfter(k, total, batch_size)]

\* extract_embeddings(paths, model, device, batch_size, pooling, preprocess,
\* on_batch) for batch_size >= 1: the exception raised, the rows and
\* valid_indices returned, and the processed counts handed to on_batch.
\* build_transform_for_mode raises for an unknown preprocess before the loop,
\* _pool_features for an unknown pooling in the first batch that holds an
\* image.
extract_embeddings(pths, batch_size, pooling, preprocess, e) ==
    IF preprocess = None \/ ValueOf(preprocess) \notin VALID_PREPROCESS_OPTIONS
    THEN [raised |-> "ValueError", embeddings |-> <<>>, valid_indices |-> <<>>,
          batches |-> <<>>]
    ELSE IF /\ pooling = None \/ ValueOf(pooling) \notin VALID_POOLING_OPTIONS
            /\ FirstPooledBatch(Len(pths), batch_size, e.loads)
                  <= NumBatches(Len(pths), batch_size)
    THEN [raised |-> "ValueError", embeddings |-> <<>>, valid_indices |-> <<>>,
          batches |-> OnBatchCalls(FirstPooledBatch(Len(pths), batch_size, e.loads) - 1,
                                   Len(pths), batch_size, e.loads)]
    ELSE IF ValidAfter(NumBatches(Len(pths), batch_size), Len(pths), batch_size, e.loads) = <<>>
    THEN [raised |-> "RuntimeError", embeddings |-> <<>>, valid_indices |-> <<>>,
          batches |-> OnBatchCalls(NumBatches(Len(pths), batch_size),
                                   Len(pths), batch_size, e.loads)]
    ELSE [raised |-> NoError,
          embeddings |->
              [k \in 1 .. Len(ValidAfter(NumBatches(Len(pths), batch_size),
                                         Len(pths), batch_size, e.loads)) |->
                  e.rows[ValidAfter(NumBatches(Len(pths), batch_size),
                                    Len(pths), batch_size, e.loads)[k]]],
          valid_indices |-> ValidAfter(NumBatches(Len(pths), batch_size),
                                       Len(pths), batch_size, e.loads),
          batches |-> OnBatchCalls(NumBatches(Len(pths), batch_size),
                                   Len(pths), batch_size, e.loads)]

-----------------------------------------------------------------------------
(* Specification of build_ordered_sequence: Init binds the arguments, the  *)
(* action runs the call.                                                   *)

\* The variables of cluster() while another function is the one under study.
ClusterIdle ==
    /\ dist = <<>>
    /\ distance_threshold = 0
    /\ linkage = ""
    /\ result = ClusterResult(<<>>, 0)
    /\ fit_calls = 0

\* The variables of compute_distance_matrix while another function is studied.
DistanceIdle ==
    /\ embeddings = <<>>
    /\ similarity = <<>>
    /\ temporal_weight = 0
    /\ distance = <<>>

\* The variables of the callers of the pipeline while none of them runs.
CallerIdle ==
    /\ listings = <<>>
    /\ found = <<>>
    /\ parameters = <<>>
    /\ stdout = <<>>
    /\ exit_status = None

\* The variables of run_pipeline_shared while another function is studied.
PipelineIdle ==
    /\ CallerIdle
    /\ args = <<>>
    /\ params = None
    /\ on_progress = None
    /\ env = <<>>
    /\ log = <<>>
    /\ discovered = <<>>
    /\ valid_indices = <<>>
    /\ outcome = None

\* The variables of build_ordered_sequence before the call has run.
OrderingNotRun ==
    /\ clusters = <<>>
    /\ ordered = <<>>
    /\ rows = <<>>
    /\ raised = NoError

OrderingIdle ==
    /\ paths = <<>>
    /\ labels = <<>>
    /\ original_indices = None
    /\ OrderingNotRun

InitOrdering ==
    /\ PipelineIdle
    /\ pc = "call"
    /\ ClusterIdle
    /\ DistanceIdle
    /\ paths \in SeqsUpTo(PathNames, MaxN)
    /\ labels \in SeqsUpTo(LabelValues, MaxN)
    /\ original_indices \in {None} \cup {Some(s) : s \in SeqsUpTo(OriginalIndexValues, MaxN)}
    /\ OrderingNotRun

BuildOrderedSequence ==
    /\ pc = "call"
    /\ LET r == build_ordered_sequence(paths, labels, original_indices)
       IN  /\ clusters' = r.clusters
           /\ ordered' = r.ordered
           /\ rows' = r.rows
           /\ raised' = r.raised
    /\ pc' = "done"
    /\ UNCHANGED <<paths, labels, original_indices, clusterVars, distanceVars, pipelineVars>>

NextOrdering == BuildOrderedSequence

SpecOrdering == InitOrdering /\ [][NextOrdering]_vars

-----------------------------------------------------------------------------
(* Specification of cluster: Init binds the arguments, the action runs the *)
(* call.  The matrices are the symmetric ones with a zero diagonal.        *)

SymmetricMatrix(n, upper) ==
    [r \in 1 .. n |-> [c \in 1 .. n |->
        IF r = c THEN 0 ELSE upper[Cond(r - 1, c - 1)]]]


InitCluster ==
    /\ PipelineIdle
    /\ pc = "call"
    /\ OrderingIdle
    /\ DistanceIdle
    /\ \E n \in 0 .. MaxPoints :
          \E u \in [{<<i, j>> \in (0 .. n - 1) \X (0 .. n - 1) : i < j} -> DistValues] :
              dist = SymmetricMatrix(n, u)
    /\ distance_threshold \in Thresholds
    /\ linkage \in LinkageOptions
    /\ result = ClusterResult(<<>>, 0)
    /\ fit_calls = 0

Cluster ==
    /\ pc = "call"
    /\ LET c == cluster_call(dist, distance_threshold, linkage)
       IN  /\ result' = c.result
           /\ fit_calls' = c.fit_calls
    /\ pc' = "done"
    /\ UNCHANGED <<dist, distance_threshold, linkage, orderingVars, distanceVars, pipelineVars>>

NextCluster == Cluster

SpecCluster == InitCluster /\ [][NextCluster]_vars

-----------------------------------------------------------------------------
(* Specification of compute_distance_matrix: Init binds the arguments, the *)
(* action runs the call.  The similarity matrices are the symmetric ones,  *)
(* as embeddings @ embeddings.T is, with a diagonal of about 1.            *)

\* The symmetric matrix of diagonal `diag` and upper triangle `upper`.
SymmetricWithDiagonal(n, diag, upper) ==
    [r \in 1 .. n |-> [c \in 1 .. n |->
        IF r = c THEN diag[r] ELSE upper[Cond(r - 1, c - 1)]]]

InitDistance ==
    /\ PipelineIdle
    /\ pc = "call"
    /\ OrderingIdle
    /\ ClusterIdle
    /\ \E n \in 0 .. MaxDim :
          \E g \in [1 .. n -> DiagonalValues] :
          \E u \in [{<<i, j>> \in (0 .. n - 1) \X (0 .. n - 1) : i < j} -> SimilarityValues] :
              similarity = SymmetricWithDiagonal(n, g, u)
    /\ embeddings = <<>>
    /\ temporal_weight \in TemporalWeights
    /\ distance = <<>>

ComputeDistanceMatrix ==
    /\ pc = "call"
    /\ distance' = compute_distance_matrix(similarity, temporal_weight)
    /\ pc' = "done"
    /\ UNCHANGED <<embeddings, similarity, temporal_weight, orderingVars, clusterVars,
                   pipelineVars>>

NextDistance == ComputeDistanceMatrix

SpecDistance == InitDistance /\ [][NextDistance]_vars

-----------------------------------------------------------------------------
(* Specification of cluster followed by build_ordered_sequence on its      *)
(* labels, on distance matrices with block structure: the items fall into  *)
(* two groups of at most GroupSize, every distance within a group is below *)
(* the threshold and every distance between the groups above it.  Either   *)
(* the distances within the groups or those between them vary from pair to *)
(* pair.                                                                   *)

\* The assignments of n items to two groups, the first item in group 0.
BlockGroupings(n) ==
    {g \in [1 .. n -> {0, 1}] :
        /\ n > 0 => g[1] = 0
        /\ \A k \in {0, 1} : Cardinality({i \in 1 .. n : g[i] = k}) <= GroupSize}

PairsWithin(n, g) ==
    {p \in (0 .. n - 1) \X (0 .. n - 1) : p[1] < p[2] /\ g[p[1] + 1] = g[p[2] + 1]}
PairsBetween(n, g) ==
    {p \in (0 .. n - 1) \X (0 .. n - 1) : p[1] < p[2] /\ g[p[1] + 1] # g[p[2] + 1]}

\* Distances below and above the threshold t.
Below(t) == {0, t - 1}
Above(t) == {t + 1, MaxThreshold + 1}

\* _make_block_distance: the symmetric matrix with a zero diagonal.
BlockMatrix(n, g, within, between) ==
    [r \in 1 .. n |-> [c \in 1 .. n |->
        IF r = c THEN 0
        ELSE IF g[r] = g[c] THEN within[Cond(r - 1, c - 1)]
        ELSE between[Cond(r - 1, c - 1)]]]

InitBlocks ==
    /\ PipelineIdle
    /\ pc = "blocks"
    /\ DistanceIdle
    /\ distance_threshold \in Thresholds
    /\ linkage \in LinkageOptions
    /\ \E n \in 0 .. 2 * GroupSize :
       \E g \in BlockGroupings(n) :
          \/ \E u \in [PairsWithin(n, g) -> Below(distance_threshold)] :
             \E b \in Above(distance_threshold) :
                dist = BlockMatrix(n, g, u, [p \in PairsBetween(n, g) |-> b])
          \/ \E a \in Below(distance_threshold) :
             \E v \in [PairsBetween(n, g) -> Above(distance_threshold)] :
                dist = BlockMatrix(n, g, [p \in PairsWithin(n, g) |-> a], v)
    /\ result = ClusterResult(<<>>, 0)
    /\ fit_calls = 0
    /\ paths = [i \in 1 .. Len(dist) |-> "a.jpg"]
    /\ labels = <<>>
    /\ original_indices = None
    /\ OrderingNotRun

\* result = cluster(dist, distance_threshold, linkage); its labels become the
\* labels argument of build_ordered_sequence.
ClusterBlocks ==
    /\ pc = "blocks"
    /\ LET c == cluster_call(dist, distance_threshold, linkage)
       IN  /\ result' = c.result
           /\ fit_calls' = c.fit_calls
           /\ labels' = c.result.labels
    /\ pc' = "clustered"
    /\ UNCHANGED <<dist, distance_threshold, linkage, paths, original_indices,
                   clusters, ordered, rows, raised, distanceVars, pipelineVars>>

\* ordered = build_ordered_sequence(paths, result.labels)
OrderBlocks ==
    /\ pc = "clustered"
    /\ LET r == build_ordered_sequence(paths, labels, original_indices)
       IN  /\ clusters' = r.clusters
           /\ ordered' = r.ordered
           /\ rows' = r.rows
           /\ raised' = r.raised
    /\ pc' = "done"
    /\ UNCHANGED <<paths, labels, original_indices, clusterVars, distanceVars, pipelineVars>>

NextBlocks == ClusterBlocks \/ OrderBlocks

SpecBlocks == InitBlocks /\ [][NextBlocks]_vars

-----------------------------------------------------------------------------
(* Specification of compute_similarity_matrix followed by                  *)
(* compute_distance_matrix, as pipeline.py calls them (lines 208-209), and *)
(* of compute_distance_matrix on the symmetric matrices of SpecDistance.   *)

InitSimilarity ==
    /\ PipelineIdle
    /\ pc = "similarity"
    /\ OrderingIdle
    /\ ClusterIdle
    /\ \E n \in 0 .. MaxEmbeddings :
          embeddings \in [1 .. n -> [1 .. EmbeddingDim -> EmbeddingValues]]
    /\ similarity = <<>>
    /\ temporal_weight \in TemporalWeights
    /\ distance = <<>>

ComputeSimilarityMatrix ==
    /\ pc = "similarity"
    /\ similarity' = compute_similarity_matrix(embeddings)
    /\ pc' = "call"
    /\ UNCHANGED <<embeddings, temporal_weight, distance, orderingVars, clusterVars,
                   pipelineVars>>

NextSimilarity == ComputeSimilarityMatrix \/ ComputeDistanceMatrix

SpecSimilarity == (InitSimilarity \/ InitDistance) /\ [][NextSimilarity]_vars

-----------------------------------------------------------------------------
(* utils.py: natural_sort_key and discover_images.  A path is its stem and  *)
(* its suffix, each a sequence of characters, and whether it is a file.    *)

\* Largest number of entries of a directory.
MaxFiles == 3

\* str.lower() of one character.
lower(ch) ==
    CASE ch = "A" -> "a"
      [] ch = "B" -> "b"
      [] ch = "J" -> "j"
      [] ch = "P" -> "p"
      [] ch = "G" -> "g"
      [] ch = "R" -> "r"
      [] ch = "W" -> "w"
      [] OTHER -> ch

\* str.lower()
LowerText(text) == [k \in 1 .. Len(text) |-> lower(text[k])]

Digits == <<"0", "1", "2", "3", "4", "5", "6", "7", "8", "9">>
IsDigit(ch) == \E d \in 1 .. Len(Digits) : Digits[d] = ch
DigitValue(ch) == (CHOOSE d \in 1 .. Len(Digits) : Digits[d] = ch) - 1

\* int(p) of a group of digits.
RECURSIVE IntOf(_)
IntOf(ds) ==
    IF ds = <<>> THEN 0
    ELSE 10 * IntOf(SubSeq(ds, 1, Len(ds) - 1)) + DigitValue(ds[Len(ds)])

\* ord(ch) of the characters that stay in a lowered text.
ord(ch) ==
    CASE ch = "_" -> 95
      [] ch = "a" -> 97
      [] ch = "b" -> 98
      [] OTHER -> 0

\* re.split(r"(\d+)", stem): texts at the odd places, groups of digits at the
\* even places; `parts` holds the groups read so far.
RECURSIVE Split(_, _)
Split(text, parts) ==
    IF text = <<>>
    THEN IF Len(parts) % 2 = 0 THEN Append(parts, <<>>) ELSE parts
    ELSE IF IsDigit(Head(text)) = (Len(parts) % 2 = 0)
         THEN Split(Tail(text),
                    [parts EXCEPT ![Len(parts)] = Append(parts[Len(parts)], Head(text))])
         ELSE Split(Tail(text), Append(parts, <<Head(text)>>))

\* utils.py lines 40-43: [int(p) if p.isdigit() else p.lower() for p in parts]
natural_sort_key(path) ==
    LET parts == Split(path.stem, <<<<>>>>)
    IN  [k \in 1 .. Len(parts) |->
            IF k % 2 = 0 THEN IntOf(parts[k]) ELSE LowerText(parts[k])]

\* a < b for two str.
RECURSIVE TextLess(_, _)
TextLess(a, b) ==
    IF b = <<>> THEN FALSE
    ELSE IF a = <<>> THEN TRUE
    ELSE IF Head(a) = Head(b) THEN TextLess(Tail(a), Tail(b))
    ELSE ord(Head(a)) < ord(Head(b))

\* a < b for two keys, as Python compares lists: the elements at the first
\* place k where they differ decide, a str at an odd place, an int at an even.
RECURSIVE KeyLessFrom(_, _, _)
KeyLessFrom(a, b, k) ==
    IF k > Len(b) THEN FALSE
    ELSE IF k > Len(a) THEN TRUE
    ELSE IF a[k] = b[k] THEN KeyLessFrom(a, b, k + 1)
    ELSE IF k % 2 = 0 THEN a[k] < b[k]
    ELSE TextLess(a[k], b[k])

KeyLess(a, b) == KeyLessFrom(a, b, 1)

\* list.sort(key=natural_sort_key) is stable: an element goes behind the
\* elements before it that do not have a larger key.
InsertByKey(sorted, x) ==
    LET larger == {i \in 1 .. Len(sorted) :
                      KeyLess(natural_sort_key(x), natural_sort_key(sorted[i]))}
        at == IF larger = {} THEN Len(sorted) + 1 ELSE SetMin(larger)
    IN  SubSeq(sorted, 1, at - 1) \o <<x>> \o SubSeq(sorted, at, Len(sorted))

RECURSIVE SortedByKey(_)
SortedByKey(lst) ==
    IF lst = <<>> THEN <<>>
    ELSE InsertByKey(SortedByKey(SubSeq(lst, 1, Len(lst) - 1)), lst[Len(lst)])

\* config.py: DEFAULTS.image_extensions + DEFAULTS.raw_extensions
Extensions ==
    {<<".", "j", "p", "g">>, <<".", "j", "p", "e", "g">>, <<".", "p", "n", "g">>,
     <<".", "t", "i", "f", "f">>, <<".", "t", "i", "f">>, <<".", "b", "m", "p">>,
     <<".", "w", "e", "b", "p">>, <<".", "a", "r", "w">>, <<".", "d", "n", "g">>,
     <<".", "c", "r", "2">>, <<".", "c", "r", "3">>, <<".", "n", "e", "f">>,
     <<".", "o", "r", "f">>, <<".", "r", "a", "f">>, <<".", "r", "w", "2">>}

\* Line 51: p.is_file() and p.suffix.lower() in extensions
Supported(path) == path.is_file /\ LowerText(path.suffix) \in Extensions

\* utils.py lines 46-54, of what input_dir.iterdir() yields.
discover_images(listing) == SortedByKey(SelectSeq(listing, Supported))

-----------------------------------------------------------------------------
(* Specification of discover_images: the same directory is listed in two   *)
(* runs, Init binds what iterdir() yields in each, the action runs both     *)
(* calls.                                                                  *)

Entry(stem, suffix, is_file) == [stem |-> stem, suffix |-> suffix, is_file |-> is_file]

\* The entries a directory is made of: a1.ARW, a1.jpg, A1.jpg, a01.jpg,
\* a2.jpg, a10.jpg, b.JPG, a2.txt and a directory B.jpg.
DirectoryEntries ==
    <<Entry(<<"a", "1">>, <<".", "A", "R", "W">>, TRUE),
      Entry(<<"a", "1">>, <<".", "j", "p", "g">>, TRUE),
      Entry(<<"A", "1">>, <<".", "j", "p", "g">>, TRUE),
      Entry(<<"a", "0", "1">>, <<".", "j", "p", "g">>, TRUE),
      Entry(<<"a", "2">>, <<".", "j", "p", "g">>, TRUE),
      Entry(<<"a", "1", "0">>, <<".", "j", "p", "g">>, TRUE),
      Entry(<<"b">>, <<".", "J", "P", "G">>, TRUE),
      Entry(<<"a", "2">>, <<".", "t", "x", "t">>, TRUE),
      Entry(<<"B">>, <<".", "j", "p", "g">>, FALSE)>>

ListingOrders(n) == {f \in [1 .. n -> 1 .. n] : \A i, j \in 1 .. n : f[i] = f[j] => i = j}

\* The variables of the pipeline and of the CLI while discover_images is studied.
DiscoverIdle ==
    /\ args = <<>>
    /\ params = None
    /\ on_progress = None
    /\ env = <<>>
    /\ log = <<>>
    /\ discovered = <<>>
    /\ valid_indices = <<>>
    /\ outcome = None
    /\ parameters = <<>>
    /\ stdout = <<>>
    /\ exit_status = None

InitDiscover ==
    /\ pc = "call"
    /\ OrderingIdle
    /\ ClusterIdle
    /\ DistanceIdle
    /\ DiscoverIdle
    /\ \E S \in SUBSET (1 .. Len(DirectoryEntries)) :
          /\ Cardinality(S) <= MaxFiles
          /\ \E f \in ListingOrders(Cardinality(S)), g \in ListingOrders(Cardinality(S)) :
                listings =
                    <<[k \in 1 .. Cardinality(S) |-> DirectoryEntries[SortedIndices(S)[f[k]]]],
                      [k \in 1 .. Cardinality(S) |-> DirectoryEntries[SortedIndices(S)[g[k]]]]>>
    /\ found = <<>>

DiscoverImages ==
    /\ pc = "call"
    /\ found' = <<discover_images(listings[1]), discover_images(listings[2])>>
    /\ pc' = "done"
    /\ UNCHANGED <<listings, parameters, stdout, exit_status, args, params, on_progress,
                   env, log, discovered, valid_indices, outcome,
                   orderingVars, clusterVars, distanceVars>>

NextDiscover == DiscoverImages

SpecDiscover == InitDiscover /\ [][NextDiscover]_vars

-----------------------------------------------------------------------------
(* Specification of a pipeline run: PipelineParams(...) is constructed and, *)
(* when an instance exists, run_pipeline_shared runs with the              *)
(* collaborators of pipeline_runner.py, one action per step.  pc is the    *)
(* line of pipeline.py the run has reached.                                *)

\* The argument values of the constructor: on both sides of every limit of
\* validate_pipeline_parameters, every valid option, one unknown option and
\* None.
ThresholdArgs == {0 - FixOne \div 2, 0, FixOne \div 2, 2 * FixOne, 2 * FixOne + 1}
TemporalWeightArgs == {0 - 1, 0, FixOne \div 2}
BatchSizeArgs == {0, 1, 2}
OptionArgs(options, unknown) == {None, Some(unknown)} \cup {Some(o) : o \in options}

AnyArgs ==
    [distance_threshold : ThresholdArgs,
     temporal_weight : TemporalWeightArgs,
     batch_size : BatchSizeArgs,
     pooling : OptionArgs(VALID_POOLING_OPTIONS, "max"),
     preprocess : OptionArgs(VALID_PREPROCESS_OPTIONS, "crop"),
     linkage : OptionArgs(VALID_LINKAGE_OPTIONS, "ward"),
     device : OptionArgs(VALID_DEVICE_OPTIONS, "tpu")]

\* Valid arguments that differ in what the run computes.
RunArgs ==
    [distance_threshold : {FixOne \div 2, FixOne, 2 * FixOne},
     temporal_weight : {0, FixOne \div 2},
     batch_size : {1, 2},
     pooling : {Some("avg")},
     preprocess : {Some("letterbox")},
     linkage : {Some(o) : o \in VALID_LINKAGE_OPTIONS},
     device : {Some("auto")}]

\* The images of a directory of n images, in natural order: 1.jpg, 2.jpg, ...
ImageNames(n) == [i \in 1 .. n |-> ToString(i) \o ".jpg"]

\* Unit-norm embedding rows.
EmbeddingRows == {<<FixOne, 0>>, <<0, FixOne>>, <<0 - FixOne, 0>>}

\* output.py lines 14-25: the parameters of output_manifest; it takes no
\* **kwargs.
output_manifest ==
    [parameters |-> {"ordered", "output_path", "input_dir", "distance_threshold",
                     "temporal_weight", "linkage", "pooling", "batch_size", "device"},
     var_keyword |-> FALSE]

\* test_pipeline_runner.py: def fake_output_manifest(ordered, path, **kwargs)
fake_output_manifest == [parameters |-> {"ordered", "path"}, var_keyword |-> TRUE]

\* pipeline.py lines 225-236: the keyword arguments of the call of
\* output_manifest_fn.
OutputManifestKeywords ==
    {"input_dir", "distance_threshold", "temporal_weight", "linkage", "pooling",
     "preprocess", "batch_size", "device"}

\* Python binds the arguments before the body runs: a keyword that is no
\* parameter is a TypeError unless the function takes **kwargs.
BindKeywords(fn, keywords) ==
    IF fn.var_keyword \/ keywords \subseteq fn.parameters THEN NoError ELSE "TypeError"

\* The world of a run: the directory, which images load and their embedding
\* rows, the function wired as output_manifest_fn, and the collaborator call
\* or the progress event at which an exception is raised (None: nowhere).
Directory(n, loads, rws) ==
    [is_dir |-> TRUE, images |-> ImageNames(n), loads |-> loads, rows |-> rws,
     output_manifest_fn |-> fake_output_manifest, fault |-> None]

\* input_dir is missing, empty, or holds one or two images that load.
SmallEnvs ==
    {[Directory(0, {}, <<>>) EXCEPT !.is_dir = FALSE],
     Directory(0, {}, <<>>),
     Directory(1, {0}, [i \in {0} |-> <<FixOne, 0>>]),
     Directory(2, {0, 1}, [i \in {0, 1} |-> <<FixOne, 0>>])}

\* The entries of log: emit(step, detail, processed, total), and the call and
\* the return of a collaborator.  A detail is its text and the number
\* formatted into it.
Event(step, text, n, processed, total) ==
    [kind |-> "event", name |-> step, text |-> text, n |-> n,
     processed |-> processed, total |-> total]
Call(fn) ==
    [kind |-> "call", name |-> fn, text |-> "", n |-> 0, processed |-> 0, total |-> 0]
Return(fn) ==
    [kind |-> "return", name |-> fn, text |-> "", n |-> 0, processed |-> 0, total |-> 0]

\* The collaborators of run_pipeline_shared, in the order of its parameters.
Collaborators ==
    <<"discover_images", "detect_device", "load_model", "extract_embeddings",
      "compute_similarity_matrix", "compute_distance_matrix", "cluster",
      "build_ordered_sequence", "output_manifest">>

\* The progress events of pipeline.py: step and text of the detail.
EventTexts ==
    {<<"discover", "Discovering images">>, <<"discover", "Found images">>,
     <<"model", "Loading DINOv3 model">>, <<"model", "Model loaded">>,
     <<"embed", "Extracting embeddings">>, <<"embed", "processed/total">>,
     <<"embed", "Embeddings extracted">>,
     <<"similarity", "Computing similarity matrix">>,
     <<"similarity", "Distance matrix ready">>,
     <<"cluster", "Clustering">>, <<"cluster", "clusters found">>,
     <<"output", "Writing manifest">>, <<"output", "Manifest written">>}

\* The places where an exception can be raised from outside the pipeline: in
\* a collaborator when it is called, in the callback when it gets an event.
Faults ==
    {[kind |-> "call", name |-> Collaborators[k], text |-> ""] : k \in 1 .. Len(Collaborators)}
    \cup {[kind |-> "event", name |-> et[1], text |-> et[2]] : et \in EventTexts}

\* Does the exception of the world hit this entry?  emit() calls the callback
\* only when there is one (lines 136-138).
Hit(entry, e, callback) ==
    /\ e.fault # None
    /\ ValueOf(e.fault).kind = entry.kind
    /\ ValueOf(e.fault).name = entry.name
    /\ entry.kind = "event" => (callback # None /\ ValueOf(e.fault).text = entry.text)

FirstHit(segment, e, callback) ==
    SetMin({i \in 1 .. Len(segment) : Hit(segment[i], e, callback)} \cup {Len(segment) + 1})

\* Faulty variant of RunSegment: the exception of a collaborator or of the
\* callback is swallowed.
RunSegmentSwallowing(segment, e, callback) == [log |-> segment, raised |-> NoError]

\* A step runs the entries of `segment` in order up to the entry where an
\* exception is raised; nothing in run_pipeline_shared catches it.
RunSegment(segment, e, callback) ==
    IF FirstHit(segment, e, callback) > Len(segment)
    THEN [log |-> segment, raised |-> NoError]
    ELSE [log |-> SubSeq(segment, 1, FirstHit(segment, e, callback)),
          raised |-> IF segment[FirstHit(segment, e, callback)].kind = "event"
                     THEN "CallbackError" ELSE "CollaboratorError"]

\* The exception that leaves a step: the one raised from outside, or the
\* step's own.
StepRaised(run, own) == IF run.raised # NoError THEN run.raised ELSE own

HasEntry(segment, entry) == \E i \in 1 .. Len(segment) : segment[i] = entry

\* Valid arguments and worlds for the runs in which an exception is raised.
FaultArgs ==
    [distance_threshold : {FixOne},
     temporal_weight : {0},
     batch_size : {1, 2},
     pooling : {Some("avg")},
     preprocess : {Some("letterbox")},
     linkage : {Some("complete")},
     device : {Some("auto")}]

FaultEnvs ==
    {[Directory(n, loads, [i \in loads |-> <<FixOne, 0>>])
        EXCEPT !.fault = fault, !.output_manifest_fn = fn] :
        n \in 1 .. MaxImages, loads \in {{0}, {0, 1}, 0 .. MaxImages - 1},
        fault \in {None} \cup {Some(f) : f \in Faults},
        fn \in {output_manifest, fake_output_manifest}}

InitPipeline ==
    /\ pc = "new"
    /\ CallerIdle
    /\ OrderingIdle
    /\ ClusterIdle
    /\ DistanceIdle
    /\ \/ /\ args \in AnyArgs
          /\ env \in SmallEnvs
       \/ /\ args \in RunArgs
          /\ \E n \in 1 .. MaxImages :
             \E loads \in SUBSET (0 .. n - 1) :
             \E rws \in [loads -> EmbeddingRows] :
                env = Directory(n, loads, rws)
       \/ /\ args \in FaultArgs
          /\ env \in FaultEnvs
          /\ env.loads \subseteq 0 .. Len(env.images) - 1
    /\ on_progress \in {None, Some("callback")}
    /\ params = None
    /\ log = <<>>
    /\ discovered = <<>>
    /\ valid_indices = <<>>
    /\ outcome = None

\* Faulty variant of BatchEvents: the batches are reported under the step "model".
BatchEventsOfModel(batches, total) ==
    [k \in 1 .. Len(batches) |->
        Event("model", "processed/total", 0, batches[k], total)]

\* Lines 170-171: _on_batch(processed, total), once per batch.
BatchEvents(batches, total) ==
    [k \in 1 .. Len(batches) |->
        Event("embed", "processed/total", 0, batches[k], total)]

\* params = PipelineParams(...)
Construct ==
    /\ pc = "new"
    /\ params' = PipelineParams(args).instance
    /\ raised' = PipelineParams(args).raised
    /\ pc' = IF PipelineParams(args).raised = NoError THEN "line148" ELSE "done"
    /\ UNCHANGED <<callerVars, args, on_progress, env, log, discovered, valid_indices, outcome,
                   paths, labels, original_indices, clusters, ordered, rows,
                   clusterVars, distanceVars>>

\* Faulty variant of IsDir: the directory is not looked at.
IsDirUnchecked(e) == TRUE

\* Line 149: input_dir.is_dir()
IsDir(e) == e.is_dir

\* Lines 148-150
CheckInputDir ==
    /\ pc = "line148"
    /\ raised' = IF IsDir(env) THEN NoError ELSE "FileNotFoundError"
    /\ pc' = IF IsDir(env) THEN "line152" ELSE "done"
    /\ UNCHANGED <<pipelineVars, paths, labels, original_indices, clusters, ordered,
                   rows, clusterVars, distanceVars>>

\* Lines 152-158: what the step does when no exception comes from outside.
DiscoverSegment(e) ==
    <<Event("discover", "Discovering images", 0, 0, 0),
      Call("discover_images"), Return("discover_images")>>
    \o IF discover_images_fn(e) = <<>> THEN <<>>
       ELSE <<Event("discover", "Found images", Len(discover_images_fn(e)),
                    Len(discover_images_fn(e)), Len(discover_images_fn(e)))>>

DiscoverRun == RunSegment(DiscoverSegment(env), env, on_progress)

\* Lines 152-158
Discover ==
    /\ pc = "line152"
    /\ log' = log \o DiscoverRun.log
    /\ raised' = StepRaised(DiscoverRun,
                            IF discover_images_fn(env) = <<>>
                            THEN "FileNotFoundError" ELSE NoError)
    /\ pc' = IF raised' = NoError THEN "line160" ELSE "done"
    /\ IF HasEntry(DiscoverRun.log, Return("discover_images"))
       THEN discovered' = discover_images_fn(env) /\ paths' = discover_images_fn(env)
       ELSE UNCHANGED <<discovered, paths>>
    /\ UNCHANGED <<callerVars, args, params, on_progress, env, valid_indices, outcome,
                   labels, original_indices, clusters, ordered, rows,
                   clusterVars, distanceVars>>

\* Lines 160-164: what the step does when no exception comes from outside.
LoadModelSegment(device) ==
    <<Event("model", "Loading DINOv3 model", 0, 0, 0), Call("detect_device")>>
    \o IF detect_device(device) # NoError THEN <<>>
       ELSE <<Return("detect_device"), Call("load_model"), Return("load_model"),
              Event("model", "Model loaded", 0, 0, 0)>>

LoadModelRun == RunSegment(LoadModelSegment(ValueOf(params).device), env, on_progress)

\* Lines 160-164
LoadModel ==
    /\ pc = "line160"
    /\ log' = log \o LoadModelRun.log
    /\ raised' = StepRaised(LoadModelRun, detect_device(ValueOf(params).device))
    /\ pc' = IF raised' = NoError THEN "line166" ELSE "done"
    /\ UNCHANGED <<callerVars, args, params, on_progress, env, discovered, valid_indices, outcome,
                   paths, labels, original_indices, clusters, ordered, rows,
                   clusterVars, distanceVars>>

\* Lines 199-202: the paths of the images that were not skipped.
FilterPaths(pths, valid) ==
    IF Len(valid) < Len(pths)
    THEN [k \in 1 .. Len(valid) |-> At(pths, valid[k])]
    ELSE pths

\* Line 191: the call of extract_embeddings_fn.
Extracted ==
    extract_embeddings(paths, ValueOf(params).batch_size, ValueOf(params).pooling,
                       ValueOf(params).preprocess, env)

\* Lines 166-204: what the step does when no exception comes from outside.
EmbedSegment(x, total) ==
    <<Event("embed", "Extracting embeddings", 0, 0, total), Call("extract_embeddings")>>
    \o BatchEvents(x.batches, total)
    \o IF x.raised # NoError THEN <<>>
       ELSE <<Return("extract_embeddings"),
              Event("embed", "Embeddings extracted", 0, total, total)>>

EmbedRun == RunSegment(EmbedSegment(Extracted, Len(paths)), env, on_progress)

\* Lines 166-204
Embed ==
    /\ pc = "line166"
    /\ log' = log \o EmbedRun.log
    /\ raised' = StepRaised(EmbedRun, Extracted.raised)
    /\ pc' = IF raised' = NoError THEN "line206" ELSE "done"
    /\ IF HasEntry(EmbedRun.log, Return("extract_embeddings"))
       THEN /\ embeddings' = Extracted.embeddings
            /\ valid_indices' = Extracted.valid_indices
            /\ paths' = FilterPaths(paths, Extracted.valid_indices)
       ELSE UNCHANGED <<embeddings, valid_indices, paths>>
    /\ UNCHANGED <<callerVars, args, params, on_progress, env, discovered, outcome,
                   labels, original_indices, clusters, ordered, rows,
                   clusterVars, similarity, temporal_weight, distance>>

\* Faulty variant of SimilaritySegment: progress is reported between the two
\* computations.
SimilaritySegmentReporting ==
    <<Event("similarity", "Computing similarity matrix", 0, 0, 0),
      Call("compute_similarity_matrix"), Return("compute_similarity_matrix"),
      Event("similarity", "Similarity matrix ready", 0, 0, 0),
      Call("compute_distance_matrix"), Return("compute_distance_matrix"),
      Event("similarity", "Distance matrix ready", 0, 0, 0)>>

\* Lines 206-210: what the step does when no exception comes from outside.
SimilaritySegment ==
    <<Event("similarity", "Computing similarity matrix", 0, 0, 0),
      Call("compute_similarity_matrix"), Return("compute_similarity_matrix"),
      Call("compute_distance_matrix"), Return("compute_distance_matrix"),
      Event("similarity", "Distance matrix ready", 0, 0, 0)>>

SimilarityRun == RunSegment(SimilaritySegment, env, on_progress)

\* Lines 206-210
Similarity ==
    /\ pc = "line206"
    /\ log' = log \o SimilarityRun.log
    /\ raised' = SimilarityRun.raised
    /\ pc' = IF raised' = NoError THEN "line212" ELSE "done"
    /\ IF HasEntry(SimilarityRun.log, Return("compute_similarity_matrix"))
       THEN similarity' = compute_similarity_matrix(embeddings)
       ELSE UNCHANGED similarity
    /\ IF HasEntry(SimilarityRun.log, Return("compute_distance_matrix"))
       THEN /\ temporal_weight' = ValueOf(params).temporal_weight
            /\ distance' = compute_distance_matrix(compute_similarity_matrix(embeddings),
                                                   ValueOf(params).temporal_weight)
       ELSE UNCHANGED <<temporal_weight, distance>>
    /\ UNCHANGED <<callerVars, args, params, on_progress, env, discovered, valid_indices, outcome,
                   orderingVars, clusterVars, embeddings>>

\* The linkage argument as the library sees it.
LinkageArgument(opt) == IF opt = None THEN "None" ELSE ValueOf(opt)

\* The library rejects an unknown linkage when the clusterer is fitted, which
\* cluster() does for two or more items.
ClusterRejects(m, method) == Shape0(m) >= 2 /\ method \notin VALID_LINKAGE_OPTIONS

\* Lines 212-215: what the step does when no exception comes from outside.
ClusterSegment(rejects, n_clusters) ==
    <<Event("cluster", "Clustering", 0, 0, 0), Call("cluster")>>
    \o IF rejects THEN <<>>
       ELSE <<Return("cluster"), Event("cluster", "clusters found", n_clusters, 0, 0)>>

\* Does the step get as far as the return of cluster_fn?
ClusterReturns(rejects, e, callback) ==
    HasEntry(RunSegment(ClusterSegment(rejects, 0), e, callback).log, Return("cluster"))

\* Lines 212-215.  The number in the last event is result.n_clusters, read
\* here from the value the step has just bound to result.
ClusterStep ==
    /\ pc = "line212"
    /\ IF ClusterRejects(distance, LinkageArgument(ValueOf(params).linkage))
       THEN /\ log' = log \o RunSegment(ClusterSegment(TRUE, 0), env, on_progress).log
            /\ raised' = StepRaised(RunSegment(ClusterSegment(TRUE, 0), env, on_progress),
                                    "InvalidParameterError")
            /\ UNCHANGED <<result, fit_calls>>
       ELSE /\ IF ClusterReturns(FALSE, env, on_progress)
               THEN LET c == cluster_call(distance, ValueOf(params).distance_threshold,
                                          LinkageArgument(ValueOf(params).linkage))
                    IN  result' = c.result /\ fit_calls' = c.fit_calls
               ELSE UNCHANGED <<result, fit_calls>>
            /\ log' = log \o RunSegment(ClusterSegment(FALSE, result'.n_clusters),
                                        env, on_progress).log
            /\ raised' = RunSegment(ClusterSegment(FALSE, 0), env, on_progress).raised
    /\ pc' = IF raised' = NoError THEN "line217" ELSE "done"
    /\ IF Hit(Event("cluster", "Clustering", 0, 0, 0), env, on_progress)
       THEN UNCHANGED <<dist, distance_threshold, linkage>>
       ELSE /\ dist' = distance
            /\ distance_threshold' = ValueOf(params).distance_threshold
            /\ linkage' = LinkageArgument(ValueOf(params).linkage)
    /\ UNCHANGED <<callerVars, args, params, on_progress, env, discovered, valid_indices, outcome,
                   paths, labels, original_indices, clusters, ordered, rows,
                   distanceVars>>

\* Faulty variant of OriginalIndicesArgument: the keyword argument is omitted.
OriginalIndicesOmitted(valid) == None

\* Line 222: original_indices=valid_indices
OriginalIndicesArgument(valid) == Some(valid)

\* Lines 239-243
PipelineOutcome(manifest_path, total_ordered, n_clusters) ==
    [manifest_path |-> manifest_path, total_ordered |-> total_ordered,
     n_clusters |-> n_clusters]

\* Line 219: the call of build_ordered_sequence_fn.
Ordering ==
    build_ordered_sequence(paths, result.labels, OriginalIndicesArgument(valid_indices))

\* The exception of the output step itself: the one of build_ordered_sequence
\* or the one of binding the arguments of output_manifest_fn.
OutputRaised(ordering_raised, e) ==
    IF ordering_raised # NoError THEN ordering_raised
    ELSE BindKeywords(e.output_manifest_fn, OutputManifestKeywords)

\* Lines 217-237: what the step does when no exception comes from outside.
OutputSegment(ordering_raised, e) ==
    <<Event("output", "Writing manifest", 0, 0, 0), Call("build_ordered_sequence")>>
    \o (IF ordering_raised # NoError THEN <<>>
        ELSE <<Return("build_ordered_sequence"), Call("output_manifest")>>)
    \o (IF OutputRaised(ordering_raised, e) # NoError THEN <<>>
        ELSE <<Return("output_manifest"), Event("output", "Manifest written", 0, 0, 0)>>)

OutputRun == RunSegment(OutputSegment(Ordering.raised, env), env, on_progress)

\* Lines 217-243
Output ==
    /\ pc = "line217"
    /\ log' = log \o OutputRun.log
    /\ raised' = StepRaised(OutputRun, OutputRaised(Ordering.raised, env))
    /\ pc' = "done"
    /\ IF HasEntry(OutputRun.log, Call("build_ordered_sequence"))
       THEN /\ labels' = result.labels
            /\ original_indices' = OriginalIndicesArgument(valid_indices)
            /\ clusters' = Ordering.clusters
            /\ ordered' = Ordering.ordered
            /\ rows' = Ordering.rows
       ELSE UNCHANGED <<labels, original_indices, clusters, ordered, rows>>
    /\ outcome' = IF raised' = NoError
                  THEN Some(PipelineOutcome("manifest.json", Len(Ordering.ordered),
                                            result.n_clusters))
                  ELSE None
    /\ UNCHANGED <<callerVars, args, params, on_progress, env, discovered, valid_indices,
                   paths, clusterVars, distanceVars>>

NextPipeline ==
    \/ Construct
    \/ CheckInputDir
    \/ Discover
    \/ LoadModel
    \/ Embed
    \/ Similarity
    \/ ClusterStep
    \/ Output

SpecPipeline == InitPipeline /\ [][NextPipeline]_vars

-----------------------------------------------------------------------------
(* Specification of one call of build_pipeline_params on a dict as the GUI *)
(* or a test passes it: each key missing or present.                       *)

\* The values of an option key: every display label of the map, every valid
\* value, one unknown string and Python's None.
OptionValues(map, options, unknown) ==
    {None, Some(unknown)}
        \cup {Some(label) : label \in DOMAIN map}
        \cup {Some(o) : o \in options}

Present(values) == {None} \cup {Some(v) : v \in values}

ParameterDicts ==
    [device : Present(OptionValues(device_map, VALID_DEVICE_OPTIONS, "tpu")),
     batch_size : Present({0, 2}),
     pooling : Present(OptionValues(pooling_map, VALID_POOLING_OPTIONS, "invalid")),
     preprocess : Present(OptionValues(preprocess_map, VALID_PREPROCESS_OPTIONS, "crop")),
     distance_threshold : Present({0, FixOne \div 2, 3 * FixOne}),
     linkage : Present(OptionValues(linkage_map, VALID_LINKAGE_OPTIONS, "ward")),
     temporal_weight : Present({0 - 1, FixOne \div 2})]

InitParams ==
    /\ pc = "call"
    /\ OrderingIdle
    /\ ClusterIdle
    /\ DistanceIdle
    /\ parameters \in ParameterDicts
    /\ listings = <<>>
    /\ found = <<>>
    /\ stdout = <<>>
    /\ exit_status = None
    /\ args = <<>>
    /\ params = None
    /\ on_progress = None
    /\ env = <<>>
    /\ log = <<>>
    /\ discovered = <<>>
    /\ valid_indices = <<>>
    /\ outcome = None

\* build_pipeline_params(input_dir, parameters); args is what the constructor
\* was called with.
BuildPipelineParams ==
    /\ pc = "call"
    /\ args' = build_pipeline_params_kwargs(parameters)
    /\ params' = build_pipeline_params(parameters).instance
    /\ raised' = build_pipeline_params(parameters).raised
    /\ pc' = "done"
    /\ UNCHANGED <<callerVars, on_progress, env, log, discovered, valid_indices, outcome,
                   paths, labels, original_indices, clusters, ordered, rows,
                   clusterVars, distanceVars>>

NextParams == BuildPipelineParams

SpecParams == InitParams /\ [][NextParams]_vars

-----------------------------------------------------------------------------
(* cli_json.py: _handle_run.  Specification of one invocation of the JSON  *)
(* Lines CLI: the namespace argparse produced, build_pipeline_params, the  *)
(* pipeline run with _on_progress as the callback, and the message that    *)
(* ends the run.                                                           *)

\* Lines 59-77: what argparse accepts.  --device is any string, the numbers
\* are any int or float, the other options are restricted by choices.
Namespaces ==
    [device : {"auto", "tpu"},
     batch_size : {0, 2},
     pooling : {"avg"},
     preprocess : {"letterbox", "timm"},
     distance_threshold : {0, FixOne \div 2, 3 * FixOne},
     linkage : {"complete", "single"},
     temporal_weight : {0 - 1, 0}]

\* Lines 94-102: the dict _handle_run passes, every key present.
HandleRunParameters(ns) ==
    [key \in ParameterKeys |->
        IF key \in {"device", "pooling", "preprocess", "linkage"}
        THEN Some(Some(ns[key]))
        ELSE Some(ns[key])]

\* The directories and collaborators of the run.  _on_progress only writes
\* to stdout and raises only when stdout cannot be written, which is left
\* out: the exceptions are those of the pipeline and its collaborators.
CliEnvs ==
    {e \in SmallEnvs \cup FaultEnvs :
        /\ e.loads \subseteq 0 .. Len(e.images) - 1
        /\ e.fault # None => ValueOf(e.fault).kind = "call"}

InitCli ==
    /\ pc = "line92"
    /\ OrderingIdle
    /\ ClusterIdle
    /\ DistanceIdle
    /\ \E ns \in Namespaces : parameters = HandleRunParameters(ns)
    /\ env \in CliEnvs
    /\ on_progress = Some("_on_progress")
    /\ listings = <<>>
    /\ found = <<>>
    /\ stdout = <<>>
    /\ exit_status = None
    /\ args = <<>>
    /\ params = None
    /\ log = <<>>
    /\ discovered = <<>>
    /\ valid_indices = <<>>
    /\ outcome = None

\* Lines 92-103, outside the try statement: an exception of
\* build_pipeline_params leaves _handle_run and main, and the interpreter
\* exits with status 1 after printing the traceback to stderr.
HandleRunBuild ==
    /\ pc = "line92"
    /\ args' = build_pipeline_params_kwargs(parameters)
    /\ params' = build_pipeline_params(parameters).instance
    /\ raised' = build_pipeline_params(parameters).raised
    /\ IF raised' = NoError
       THEN pc' = "line148" /\ UNCHANGED exit_status
       ELSE pc' = "exited" /\ exit_status' = Some(1)
    /\ UNCHANGED <<listings, found, parameters, stdout, on_progress, env, log,
                   discovered, valid_indices, outcome,
                   paths, labels, original_indices, clusters, ordered, rows,
                   clusterVars, distanceVars>>

\* _emit(obj) of a message that ends the run.
Message(type, text) == [type |-> type, text |-> text]

\* Both messages after an exception.
TerminalMessagesFallingThrough(exc, result_outcome) ==
    IF exc # NoError
    THEN <<Message("error", exc), Message("complete", "None")>>
    ELSE <<Message("complete", ValueOf(result_outcome).manifest_path)>>

\* Lines 107-112: what _handle_run emits once run_pipeline_with_progress has
\* raised exc or returned result_outcome.  str(exc) is the exception's name.
TerminalMessages(exc, result_outcome) ==
    IF exc # NoError
    THEN <<Message("error", exc)>>
    ELSE <<Message("complete", ValueOf(result_outcome).manifest_path)>>

\* Lines 105-112: the except clause emits and calls sys.exit(1); otherwise
\* _handle_run emits and returns, and the process exits with status 0.
HandleRunEnd ==
    /\ pc = "done"
    /\ stdout' = stdout \o TerminalMessages(raised, outcome)
    /\ exit_status' = IF raised # NoError THEN Some(1) ELSE Some(0)
    /\ pc' = "exited"
    /\ UNCHANGED <<listings, found, parameters, args, params, on_progress, env, log,
                   discovered, valid_indices, outcome, orderingVars, clusterVars,
                   distanceVars>>

NextCli ==
    \/ HandleRunBuild
    \/ CheckInputDir
    \/ Discover
    \/ LoadModel
    \/ Embed
    \/ Similarity
    \/ ClusterStep
    \/ Output
    \/ HandleRunEnd

SpecCli == InitCli /\ [][NextCli]_vars

-----------------------------------------------------------------------------
(* Claims about build_ordered_sequence.                                    *)

Returned == pc = "done" /\ raised = NoError
N == Len(paths)
\* The positions (1-based list slots) of the records built from row i.
SlotsOfRow(i) == {k \in 1 .. Len(ordered) : rows[k] = i}
SlotsOfCluster(c) == {k \in 1 .. Len(ordered) : ordered[k].cluster_id = c}
ClusterIds == {ordered[k].cluster_id : k \in 1 .. Len(ordered)}
MinOriginalIndex(c) == SetMin({ordered[k].original_index : k \in SlotsOfCluster(c)})

\* C1: with original_indices omitted and len(labels) = len(paths) = N, the call
\* returns N records, the record at list index k has position k, every input
\* index 0..N-1 is the original_index of exactly one record, and that record
\* carries paths[i] and labels[i].
C1_SequenceComplete ==
    (pc = "done" /\ original_indices = None /\ Len(labels) = N) =>
        /\ raised = NoError
        /\ Len(ordered) = N
        /\ \A k \in 1 .. Len(ordered) : ordered[k].position = k - 1
        /\ \A i \in 0 .. N - 1 :
              /\ Cardinality({k \in 1 .. Len(ordered) :
                                 ordered[k].original_index = i}) = 1
              /\ \A k \in 1 .. Len(ordered) :
                    ordered[k].original_index = i =>
                        /\ ordered[k].path = At(paths, i)
                        /\ ordered[k].cluster_id = At(labels, i)

\* Three items in two interleaved clusters: the output is a real reordering.
C1_Witness ==
    /\ Returned /\ original_indices = None
    /\ paths = <<"a.jpg", "b.jpg", "a.jpg">> /\ labels = <<1, 0, 1>>
    /\ Len(ordered) = 3 /\ ordered[2].original_index = 2
    /\ ordered[3].original_index = 1

\* original_indices, when given, names no index twice.
DistinctOriginalIndices ==
    original_indices # None =>
        LET oi == ValueOf(original_indices)
        IN  \A k1, k2 \in 1 .. Len(oi) : oi[k1] = oi[k2] => k1 = k2

\* C2, as claimed: every cluster is one contiguous block of positions, and the
\* block of cluster A precedes the block of cluster B exactly when the minimum
\* original_index of A's records is smaller than that of B's records.  Stated
\* for the lists that name no index twice, where two clusters never share
\* their minimum.
C2_BlocksByMinOriginalIndex ==
    (Returned /\ Len(labels) = N /\ DistinctOriginalIndices) =>
        /\ \A c \in ClusterIds : \A k1, k2 \in SlotsOfCluster(c) :
              \A k \in k1 .. k2 : k \in SlotsOfCluster(c)
        /\ \A a, b \in ClusterIds :
              a # b =>
                ((\A ka \in SlotsOfCluster(a), kb \in SlotsOfCluster(b) : ka < kb)
                    <=> MinOriginalIndex(a) < MinOriginalIndex(b))

\* C3: two rows i < j with the same label keep their relative order in the
\* returned sequence, whatever paths, label values and original_indices are.
C3_StableWithinCluster ==
    Returned =>
        \A i, j \in 0 .. Len(labels) - 1 :
            (i < j /\ At(labels, i) = At(labels, j)) =>
                /\ SlotsOfRow(i) # {} /\ SlotsOfRow(j) # {}
                /\ \A ki \in SlotsOfRow(i), kj \in SlotsOfRow(j) :
                      ordered[ki].position < ordered[kj].position

\* Rows 0 and 2 share a cluster that row 1 splits, under original indices that
\* run backwards and paths that are not in alphabetical order.
C3_Witness ==
    /\ Returned
    /\ paths = <<"b.jpg", "a.jpg", "a.jpg">> /\ labels = <<2, 0, 2>>
    /\ original_indices = Some(<<3, 2, 1>>)
    /\ rows = <<0, 2, 1>>

\* C4, as claimed (any exception counted as the error signal): when
\* len(labels) differs from len(paths) the call raises and returns no sequence.
C4_LabelMismatchRaises ==
    (pc = "done" /\ Len(labels) # N) => raised # NoError

\* C5: a provided original_indices of the wrong length raises ValueError before
\* any item is grouped or any record built; an omitted one defaults to 0..N-1
\* (each record's original_index is its row) and the length check raises nothing.
C5_OriginalIndicesChecked ==
    pc = "done" =>
        /\ (original_indices # None /\ Len(ValueOf(original_indices)) # N) =>
              (raised = "ValueError" /\ clusters = <<>> /\ ordered = <<>>)
        /\ original_indices = None =>
              /\ raised # "ValueError"
              /\ Len(labels) = N => raised = NoError
              /\ \A k \in 1 .. Len(ordered) : ordered[k].original_index = rows[k]

\* Both halves happen: a too-short list with labels to group, and an omitted one.
C5_Witness ==
    /\ pc = "done" /\ raised = "ValueError"
    /\ paths = <<"a.jpg", "b.jpg">> /\ labels = <<0, 1>>
    /\ original_indices = Some(<<0>>)

C5_WitnessOmitted ==
    /\ Returned /\ original_indices = None /\ Len(ordered) = MaxN

-----------------------------------------------------------------------------
(* Claims about cluster.                                                   *)

Clustered == pc = "done" /\ linkage \in LinkageOptions
Points == Shape0(dist)
OffDiagonal ==
    {dist[p[1]][p[2]] : p \in {q \in (1 .. Points) \X (1 .. Points) : q[1] # q[2]}}
SameCluster(i, j) == At(result.labels, i) = At(result.labels, j)

\* C6, as claimed: when the smallest pairwise distance, which is the linkage
\* distance of the first merge, equals distance_threshold, the merge still
\* happens, so fewer than N clusters remain.
C6_MergesAtThreshold ==
    (Clustered /\ Points >= 2 /\ SetMin(OffDiagonal) = distance_threshold) =>
        result.n_clusters < Points

\* C6, amended: clusters are merged only at a linkage distance strictly below
\* distance_threshold.  Some merge happens exactly when the smallest pairwise
\* distance is below the threshold, and two items at distance d are put in
\* one cluster exactly when d < distance_threshold.
C6_MergesOnlyBelowThreshold ==
    (Clustered /\ Points >= 2) =>
        /\ result.n_clusters < Points <=> SetMin(OffDiagonal) < distance_threshold
        /\ Points = 2 => (SameCluster(0, 1) <=> dist[1][2] < distance_threshold)

\* Two items at distance d clustered with threshold d stay apart.
C6_Witness ==
    /\ Clustered /\ Points = 2 /\ dist[1][2] = distance_threshold
    /\ result.n_clusters = 2 /\ ~SameCluster(0, 1)

\* C8: for the same matrix and linkage, a threshold at least as loose as the
\* one used never yields more clusters.
C8_TighterThresholdMoreClusters ==
    Clustered =>
        \A t2 \in Thresholds :
            distance_threshold <= t2 =>
                result.n_clusters >= cluster(dist, t2, linkage).n_clusters

\* A looser threshold that yields strictly fewer clusters, on three points.
C8_Witness ==
    /\ Clustered /\ Points = 3 /\ result.n_clusters = 3
    /\ \E t2 \in Thresholds :
          distance_threshold < t2 /\ cluster(dist, t2, linkage).n_clusters = 2

\* C9: for N >= 2, an all-zero matrix gives one cluster and a matrix whose
\* off-diagonal entries all exceed the threshold gives N distinct labels.
C9_DegenerateClustering ==
    (Clustered /\ Points >= 2) =>
        /\ (\A d \in OffDiagonal : d = 0) =>
              /\ result.n_clusters = 1
              /\ \A i, j \in 0 .. Points - 1 : SameCluster(i, j)
        /\ (\A d \in OffDiagonal : d > distance_threshold) =>
              /\ result.n_clusters = Points
              /\ \A i, j \in 0 .. Points - 1 : SameCluster(i, j) => i = j

\* The largest matrix of the model with every pair beyond the threshold.
C9_Witness ==
    /\ Clustered /\ Points = MaxPoints
    /\ \A d \in OffDiagonal : d > distance_threshold
    /\ result.n_clusters = Points

C9_WitnessAllZero ==
    /\ Clustered /\ Points = MaxPoints
    /\ \A d \in OffDiagonal : d = 0
    /\ result.n_clusters = 1

\* C10: the label vector has length N and n_clusters counts its distinct
\* labels; N = 0 gives no label and 0 clusters, N = 1 gives the label 0 and 1
\* cluster, and in both fit_predict is not run.
C10_LabelsAndCount ==
    Clustered =>
        /\ Len(result.labels) = Points
        /\ result.n_clusters = Cardinality({result.labels[k] : k \in 1 .. Points})
        /\ Points = 0 => (result = ClusterResult(<<>>, 0) /\ fit_calls = 0)
        /\ Points = 1 => (result = ClusterResult(<<0>>, 1) /\ fit_calls = 0)
        /\ Points >= 2 => fit_calls = 1

C10_Witness ==
    /\ Clustered /\ Points = 1 /\ result = ClusterResult(<<0>>, 1) /\ fit_calls = 0

\* C29: with linkage = complete, two items that cluster() gives the same
\* label are at a distance of at most distance_threshold, for every symmetric
\* matrix with a zero diagonal and N >= 2.
C29_CompleteLinkageDiameter ==
    (Clustered /\ linkage = "complete" /\ Points >= 2) =>
        \A i, j \in 0 .. Points - 1 :
            SameCluster(i, j) => dist[i + 1][j + 1] <= distance_threshold

\* Three items of one cluster at unequal distances, and a third item kept
\* out of a pair it is near to because it is far from the pair's other item.
C29_Witness ==
    /\ Clustered /\ linkage = "complete" /\ Points = 3
    /\ SameCluster(0, 1) /\ SameCluster(1, 2)
    /\ dist[1][2] < dist[2][3]

C29_WitnessKeptApart ==
    /\ Clustered /\ linkage = "complete" /\ Points = 3
    /\ SameCluster(0, 1) /\ ~SameCluster(1, 2)
    /\ dist[2][3] < distance_threshold /\ dist[1][3] > distance_threshold

-----------------------------------------------------------------------------
(* Claims about compute_distance_matrix.                                   *)

Dim == Len(similarity)
Entries(m) == {m[r][c] : r \in 1 .. Len(m), c \in 1 .. Len(m)}
\* The call has ended on a similarity matrix with entries in [-1, 1] and a
\* temporal_weight that validate_pipeline_parameters accepts.
DistanceComputed ==
    /\ pc = "done" /\ Len(distance) = Dim /\ Dim > 0
    /\ temporal_weight >= 0
    /\ \A v \in Entries(similarity) : 0 - FixOne <= v /\ v <= FixOne

\* The diagonal of the similarity matrix is 1, as for unit-norm embeddings.
UnitDiagonal == \A r \in 1 .. Dim : similarity[r][r] = FixOne

\* C7, as claimed: every entry of the distance matrix lies in [0, 2].  Stated
\* for the similarity matrices of unit-norm embeddings.
C7_DistanceWithinTwo ==
    (DistanceComputed /\ UnitDiagonal) =>
        \A d \in Entries(distance) : 0 <= d /\ d <= 2 * FixOne

\* C7, amended: every entry lies in [0, 2 + temporal_weight]; it lies in [0, 2]
\* when temporal_weight = 0, and entry [i, j] is 2 or more when
\* similarity[i][j] = -1.
C7_DistanceWithinTwoPlusWeight ==
    DistanceComputed =>
        /\ \A d \in Entries(distance) : 0 <= d /\ d <= 2 * FixOne + temporal_weight
        /\ temporal_weight = 0 => \A d \in Entries(distance) : d <= 2 * FixOne
        /\ \A r, c \in 1 .. Dim :
              similarity[r][c] = 0 - FixOne => distance[r][c] >= 2 * FixOne

\* Opposite embeddings at the two ends of the sequence with temporal_weight
\* 1.0: the distance is 3.
C7_Witness ==
    /\ DistanceComputed /\ UnitDiagonal /\ Dim = 3 /\ temporal_weight = FixOne
    /\ similarity[1][3] = 0 - FixOne
    /\ distance[1][3] = 3 * FixOne

\* The value the specification gives for entry [r, c] (1-based here).
ClaimedDistance(r, c) ==
    Clip(FixOne - similarity[r][c], 0, 2 * FixOne)
        + (temporal_weight * Abs(r - c)) \div (IF Dim - 1 > 1 THEN Dim - 1 ELSE 1)

\* C12: for every similarity matrix S of size N and every temporal_weight
\* w >= 0, entry [i][j] of compute_distance_matrix(S, w) equals
\* clip(1 - S[i][j], 0, 2) + w * |i - j| / max(N - 1, 1); with w = 0 it is
\* exactly clip(1 - S[i][j], 0, 2).
C12_DistanceFormula ==
    pc = "done" =>
        /\ Len(distance) = Dim
        /\ \A r \in 1 .. Dim : Len(distance[r]) = Dim
        /\ \A r, c \in 1 .. Dim :
              /\ distance[r][c] = ClaimedDistance(r, c)
              /\ temporal_weight = 0 =>
                    distance[r][c] = Clip(FixOne - similarity[r][c], 0, 2 * FixOne)

\* A similarity below -1 at the two ends of three photos with weight 0.5: the
\* cosine part is clipped to 2 and the temporal term 0.5 is added to it.
C12_Witness ==
    /\ pc = "done" /\ Dim = 3 /\ temporal_weight = FixOne \div 2
    /\ similarity[1][3] = 0 - FixOne - 1
    /\ distance[1][3] = 2 * FixOne + FixOne \div 2
    /\ distance[1][2] = Clip(FixOne - similarity[1][2], 0, 2 * FixOne) + FixOne \div 4

\* C13: no entry of the distance matrix is negative, for every similarity
\* matrix (entries above 1.0 included) and every temporal_weight >= 0.
C13_NeverNegative ==
    (pc = "done" /\ temporal_weight >= 0) =>
        \A d \in Entries(distance) : d >= 0

\* A similarity just above 1.0 without temporal term: the distance is 0.
C13_Witness ==
    /\ pc = "done" /\ Dim >= 2 /\ temporal_weight = 0
    /\ similarity[1][2] = FixOne + 1
    /\ distance[1][2] = 0

\* C14: for every N >= 1 and every temporal_weight >= 0, a similarity matrix
\* whose diagonal is 1 gives a distance matrix whose diagonal is exactly 0.
C14_ZeroDiagonal ==
    (pc = "done" /\ Dim >= 1 /\ temporal_weight >= 0 /\ UnitDiagonal) =>
        \A r \in 1 .. Dim : distance[r][r] = 0

\* N = 1 with a positive weight: the divisor is max(0, 1) = 1.
C14_Witness ==
    /\ pc = "done" /\ Dim = 1 /\ temporal_weight = FixOne
    /\ UnitDiagonal
    /\ distance = <<(<<0>>)>>

\* A larger matrix with a positive weight and a unit diagonal.
C14_WitnessLast ==
    /\ pc = "done" /\ Dim = MaxDim /\ temporal_weight > 0
    /\ UnitDiagonal
    /\ distance[Dim][Dim] = 0 /\ distance[1][Dim] > 0

\* Index pairs of equal similarity, the second one farther apart.
FartherPairs ==
    {q \in (1 .. Dim) \X (1 .. Dim) \X (1 .. Dim) \X (1 .. Dim) :
        /\ similarity[q[1]][q[2]] = similarity[q[3]][q[4]]
        /\ Abs(q[1] - q[2]) < Abs(q[3] - q[4])}

\* C15, as claimed: with temporal_weight > 0 and N >= 2, of two index pairs
\* with identical similarity the one farther apart has the strictly larger
\* distance.
C15_FartherStrictlyLarger ==
    (pc = "done" /\ Dim >= 2 /\ temporal_weight > 0) =>
        \A q \in FartherPairs : distance[q[1]][q[2]] < distance[q[3]][q[4]]

\* C15, amended: the pair farther apart never has the smaller distance, and
\* has the strictly larger one when the difference of the temporal terms,
\* w * (|k - l| - |i - j|) / max(N - 1, 1), exceeds the resolution of the
\* arithmetic.
C15_FartherNotSmaller ==
    (pc = "done" /\ Dim >= 2 /\ temporal_weight > 0) =>
        \A q \in FartherPairs :
            /\ distance[q[1]][q[2]] <= distance[q[3]][q[4]]
            /\ temporal_weight * (Abs(q[3] - q[4]) - Abs(q[1] - q[2]))
                    > (IF Dim - 1 > 1 THEN Dim - 1 ELSE 1)
                  => distance[q[1]][q[2]] < distance[q[3]][q[4]]

\* Three identical photos: with weight 0.5 the distances grow with the index
\* separation (0, 0.25, 0.5).
C15_Witness ==
    /\ pc = "done" /\ Dim = 3 /\ temporal_weight = FixOne \div 2
    /\ \A v \in Entries(similarity) : v = FixOne
    /\ distance[1][1] = 0
    /\ distance[1][2] = FixOne \div 4
    /\ distance[1][3] = FixOne \div 2

\* The same photos with a weight of the size of the resolution: neighbours
\* are as far from each other as a photo is from itself.
C15_WitnessAbsorbed ==
    /\ pc = "done" /\ Dim = 3 /\ temporal_weight = 1
    /\ \A v \in Entries(similarity) : v = FixOne
    /\ distance[1][1] = distance[1][2]

Symmetric(m) == \A r, c \in 1 .. Len(m) : m[r][c] = m[c][r]

\* C16: compute_similarity_matrix(E) is symmetric for every embedding matrix
\* E, and compute_distance_matrix(S, w) is symmetric for every symmetric S and
\* every temporal_weight w >= 0.
C16_Symmetric ==
    /\ (pc # "similarity" /\ Len(similarity) = Len(embeddings)) =>
            Symmetric(similarity)
    /\ (pc = "done" /\ Symmetric(similarity) /\ temporal_weight >= 0) =>
            Symmetric(distance)

\* Two different embeddings with a positive weight: both matrices have been
\* computed and their off-diagonal entries are not zero.
C16_Witness ==
    /\ pc = "done" /\ Len(embeddings) = 2 /\ embeddings[1] # embeddings[2]
    /\ temporal_weight > 0
    /\ similarity = compute_similarity_matrix(embeddings)
    /\ similarity[1][2] = FixOne \div 2 /\ similarity[2][1] = FixOne \div 2
    /\ distance[1][2] = FixOne \div 2 + temporal_weight
    /\ distance[2][1] = distance[1][2]

\* A drawn symmetric similarity matrix of MaxDim rows with a positive weight.
C16_WitnessDrawn ==
    /\ pc = "done" /\ embeddings = <<>> /\ Dim = MaxDim /\ temporal_weight > 0
    /\ similarity[1][Dim] = 0
    /\ distance[1][Dim] = FixOne + temporal_weight
    /\ distance[Dim][1] = FixOne + temporal_weight

-----------------------------------------------------------------------------
(* Claims about cluster followed by build_ordered_sequence.                *)

\* Items i and j (0-based) are in the same group: their distance is below the
\* threshold.
Close(i, j) == i = j \/ dist[i + 1][j + 1] < distance_threshold

\* Every within-group distance is below the threshold and every
\* between-group distance above it: no distance equals the threshold and
\* being close is transitive.
BlockStructure ==
    /\ \A i, j \in 0 .. Points - 1 :
          i # j => dist[i + 1][j + 1] # distance_threshold
    /\ \A i, j, k \in 0 .. Points - 1 :
          (Close(i, j) /\ Close(j, k)) => Close(i, k)

\* The earliest index of the group of item i.
EarliestOfGroup(i) == SetMin({j \in 0 .. Points - 1 : Close(i, j)})

\* C11: on a distance matrix with block structure cluster() under each linkage
\* gives two items the same label exactly when they are in the same group, and
\* build_ordered_sequence on those labels emits every item once, at positions
\* 0 .. N-1, the groups as contiguous blocks in the order of their earliest
\* index.
C11_BlocksRecovered ==
    (BlockStructure /\ linkage \in LinkageOptions) =>
        /\ pc \in {"clustered", "done"} =>
              /\ Len(result.labels) = Points
              /\ \A i, j \in 0 .. Points - 1 : SameCluster(i, j) <=> Close(i, j)
        /\ pc = "done" =>
              /\ raised = NoError
              /\ Len(ordered) = Points
              /\ {ordered[p].original_index : p \in 1 .. Points} = 0 .. Points - 1
              /\ \A p \in 1 .. Points : ordered[p].position = p - 1
              /\ \A p, q \in 1 .. Points :
                    /\ p < q => EarliestOfGroup(ordered[p].original_index)
                                    <= EarliestOfGroup(ordered[q].original_index)
                    /\ ordered[p].cluster_id = ordered[q].cluster_id
                          <=> Close(ordered[p].original_index, ordered[q].original_index)

\* Two groups of 3, the first group earlier, average linkage: two clusters, and
\* the sequence is items 0-2 followed by items 3-5.
C11_Witness ==
    /\ pc = "done" /\ Points = 6 /\ linkage = "average" /\ BlockStructure
    /\ \A i, j \in 0 .. 5 : Close(i, j) <=> (i < 3 <=> j < 3)
    /\ result.n_clusters = 2
    /\ [p \in 1 .. 6 |-> ordered[p].original_index] = <<0, 1, 2, 3, 4, 5>>

\* Two interleaved groups of 3 to which the library gives the labels in the
\* reverse order: the group of item 0 comes first all the same.
C11_WitnessInterleaved ==
    /\ pc = "done" /\ Points = 6 /\ BlockStructure
    /\ \A i, j \in 0 .. 5 : Close(i, j) <=> (i % 2 = j % 2)
    /\ At(result.labels, 0) > At(result.labels, 1)
    /\ [p \in 1 .. 6 |-> ordered[p].original_index] = <<0, 2, 4, 1, 3, 5>>

-----------------------------------------------------------------------------
(* Claims about PipelineParams and run_pipeline_shared.                    *)

\* The configuration the claims call valid.
ValidConfiguration(a) ==
    /\ 0 < a.distance_threshold /\ a.distance_threshold <= 2 * FixOne
    /\ a.temporal_weight >= 0
    /\ a.batch_size >= 1
    /\ a.pooling # None /\ ValueOf(a.pooling) \in VALID_POOLING_OPTIONS
    /\ a.preprocess # None /\ ValueOf(a.preprocess) \in VALID_PREPROCESS_OPTIONS
    /\ a.linkage # None /\ ValueOf(a.linkage) \in VALID_LINKAGE_OPTIONS
    /\ a.device # None /\ ValueOf(a.device) \in VALID_DEVICE_OPTIONS

LogIndices(kind) == {i \in 1 .. Len(log) : log[i].kind = kind}
\* The collaborators that have been invoked.
Invoked == {log[i].name : i \in LogIndices("call")}
\* The progress events, in the order of their emission.
IsEvent(entry) == entry.kind = "event"
Events == SelectSeq(log, IsEvent)
\* What the callback has received.
Delivered == IF on_progress = None THEN <<>> ELSE Events

\* The run has ended with a PipelineOutcome.
Succeeded == pc = "done" /\ outcome # None

\* C17, as claimed: PipelineParams(...) gives an instance exactly when the
\* configuration is valid and raises PipelineArgumentError otherwise, so no
\* collaborator is ever invoked with an invalid configuration.
C17_OnlyValidConfigurations ==
    /\ pc # "new" =>
          /\ params # None <=> ValidConfiguration(args)
          /\ params = None => raised = "PipelineArgumentError"
    /\ Invoked # {} => ValidConfiguration(args)

\* C18: in a successful run build_ordered_sequence has received the
\* discovered paths filtered to valid_indices and original_indices =
\* valid_indices, whatever images the extractor skipped; every record of the
\* sequence has the path discovered at its original_index, and total_ordered
\* is the number of valid indices.
C18_SkippedImagesKeepTheirIndex ==
    Succeeded =>
        /\ valid_indices = SortedIndices(env.loads)
        /\ paths = [k \in 1 .. Len(valid_indices) |-> At(discovered, valid_indices[k])]
        /\ original_indices = Some(valid_indices)
        /\ \A k \in 1 .. Len(ordered) :
              At(discovered, ordered[k].original_index) = ordered[k].path
        /\ ValueOf(outcome).total_ordered = Len(valid_indices)

\* Three images of which the middle one is skipped.
C18_Witness ==
    /\ Succeeded
    /\ discovered = <<"1.jpg", "2.jpg", "3.jpg">> /\ env.loads = {0, 2}
    /\ paths = <<"1.jpg", "3.jpg">>
    /\ {<<ordered[k].original_index, ordered[k].path>> : k \in 1 .. Len(ordered)}
          = {<<0, "1.jpg">>, <<2, "3.jpg">>}
    /\ ValueOf(outcome).total_ordered = 2

\* The step of a collaborator.
StepOfCollaborator(fn) ==
    CASE fn = "discover_images" -> "discover"
      [] fn \in {"detect_device", "load_model"} -> "model"
      [] fn = "extract_embeddings" -> "embed"
      [] fn \in {"compute_similarity_matrix", "compute_distance_matrix"} -> "similarity"
      [] fn = "cluster" -> "cluster"
      [] fn \in {"build_ordered_sequence", "output_manifest"} -> "output"

StepIndex(step) == CHOOSE k \in 1 .. Len(STEPS) : STEPS[k] = step
EventIndicesOf(step) == {i \in LogIndices("event") : log[i].name = step}
WorkIndicesOf(step) ==
    {i \in LogIndices("call") \cup LogIndices("return") :
        StepOfCollaborator(log[i].name) = step}

\* C19: in every successful run the steps of the progress events are
\* non-decreasing in the order of STEPS, every step of STEPS is reported, its
\* first event comes before the calls of its collaborators and its last event
\* after their returns; a callback receives exactly these events.
C19_StepsInOrder ==
    Succeeded =>
        /\ \A i, j \in 1 .. Len(Events) :
              i < j => StepIndex(Events[i].name) <= StepIndex(Events[j].name)
        /\ \A k \in 1 .. Len(STEPS) :
              /\ EventIndicesOf(STEPS[k]) # {}
              /\ WorkIndicesOf(STEPS[k]) # {}
              /\ \A w \in WorkIndicesOf(STEPS[k]) :
                    /\ \E e \in EventIndicesOf(STEPS[k]) : e < w
                    /\ \E e \in EventIndicesOf(STEPS[k]) : e > w
        /\ on_progress # None => Delivered = Events

\* A successful run of three images in two batches with a callback.
C19_Witness ==
    /\ Succeeded /\ on_progress # None
    /\ Len(discovered) = 3 /\ ValueOf(params).batch_size = 2
    /\ [i \in 1 .. Len(Delivered) |-> Delivered[i].name]
          = <<"discover", "discover", "model", "model", "embed", "embed", "embed",
              "embed", "similarity", "similarity", "cluster", "cluster",
              "output", "output">>

\* C20: a run on a missing input directory raises FileNotFoundError before
\* any progress event and any collaborator call; a run on a directory without
\* images raises FileNotFoundError after the first "discover" event, and
\* device detection, model loading and embedding extraction are never invoked.
C20_FileNotFound ==
    (pc = "done" /\ params # None) =>
        /\ ~env.is_dir => (raised = "FileNotFoundError" /\ log = <<>>)
        /\ (env.is_dir /\ env.images = <<>> /\ env.fault = None) =>
              /\ raised = "FileNotFoundError"
              /\ Len(Events) = 1 /\ Events[1].name = "discover"
              /\ log[1] = Events[1]
              /\ Invoked = {"discover_images"}
        /\ outcome # None => (env.is_dir /\ env.images # <<>>)

\* The run on a missing directory has ended.
C20_Witness ==
    /\ pc = "done" /\ params # None /\ ~env.is_dir
    /\ raised = "FileNotFoundError" /\ log = <<>>

\* The run on an empty directory has ended.
C20_WitnessNoImages ==
    /\ pc = "done" /\ params # None /\ env.is_dir /\ env.images = <<>>
    /\ raised = "FileNotFoundError" /\ Len(log) = 3

\* The position in Collaborators of a collaborator.
CollaboratorIndex(fn) == CHOOSE k \in 1 .. Len(Collaborators) : Collaborators[k] = fn

IsCall(entry) == entry.kind = "call"
\* The calls of collaborators, in order.
Calls == SelectSeq(log, IsCall)

\* Is the event at place i the event `text` of `step`?
IsEventAt(i, step, text) ==
    log[i].kind = "event" /\ log[i].name = step /\ log[i].text = text

\* C23: in every run the collaborators are called in the fixed order
\* discover_images, detect_device, load_model, extract_embeddings,
\* compute_similarity_matrix, compute_distance_matrix, cluster,
\* build_ordered_sequence, output_manifest, each at most once and only after
\* the one before it has returned; no progress event lies between the first
\* event of the similarity step and "Distance matrix ready", nor between
\* "Clustering" and the clusters-found event.
C23_FixedOrderQuietCore ==
    /\ Len(Calls) <= Len(Collaborators)
    /\ \A k \in 1 .. Len(Calls) : Calls[k].name = Collaborators[k]
    /\ \A i \in LogIndices("call") :
          CollaboratorIndex(log[i].name) > 1 =>
              \E j \in 1 .. i - 1 :
                  log[j] = Return(Collaborators[CollaboratorIndex(log[i].name) - 1])
    /\ \A i \in LogIndices("event") :
          /\ (IsEventAt(i, "similarity", "Computing similarity matrix")
                /\ \E j \in LogIndices("event") : j > i) =>
                \E k \in i + 1 .. Len(log) :
                    /\ IsEventAt(k, "similarity", "Distance matrix ready")
                    /\ \A j \in i + 1 .. k - 1 : log[j].kind # "event"
          /\ (IsEventAt(i, "cluster", "Clustering")
                /\ \E j \in LogIndices("event") : j > i) =>
                \E k \in i + 1 .. Len(log) :
                    /\ IsEventAt(k, "cluster", "clusters found")
                    /\ \A j \in i + 1 .. k - 1 : log[j].kind # "event"

\* A run in which all nine collaborators have been called.
C23_Witness ==
    /\ pc = "done" /\ raised = NoError
    /\ [k \in 1 .. Len(Calls) |-> Calls[k].name] = Collaborators
    /\ \E i \in 1 .. Len(log) : IsEventAt(i, "similarity", "Distance matrix ready")
    /\ \E i \in 1 .. Len(log) : IsEventAt(i, "cluster", "clusters found")

\* The places of log at which the exception of the world was raised.
HitIndices == {i \in 1 .. Len(log) : Hit(log[i], env, on_progress)}

ManifestWritten == HasEntry(log, Return("output_manifest"))
ManifestWrittenEmitted ==
    \E i \in 1 .. Len(log) : IsEventAt(i, "output", "Manifest written")

\* The exception of the world is the one of the callback on its last event.
FaultOnLastEvent ==
    env.fault = Some([kind |-> "event", name |-> "output", text |-> "Manifest written"])

\* C24, as claimed: when a collaborator (other than output_manifest itself)
\* or the callback raises, output_manifest is not called, no manifest is
\* written and no "Manifest written" event is emitted.
C24_NoManifestAfterException ==
    (HitIndices # {} /\ env.fault # Some([kind |-> "call", name |-> "output_manifest", text |-> ""])) =>
        /\ ~HasEntry(log, Call("output_manifest"))
        /\ ~ManifestWritten
        /\ ~ManifestWrittenEmitted

\* C24, amended: when a collaborator or the callback raises, nothing follows
\* in the run: no collaborator is called and no event emitted after it, no
\* PipelineOutcome is returned and the exception reaches the caller as it
\* is.  output_manifest has not returned and "Manifest written" has not been
\* emitted, except when the exception is the one of the callback on the
\* "Manifest written" event, which comes after the manifest is written.
C24_NothingAfterException ==
    HitIndices # {} =>
        /\ HitIndices = {Len(log)}
        /\ pc = "done"
        /\ outcome = None
        /\ raised = IF log[Len(log)].kind = "event" THEN "CallbackError" ELSE "CollaboratorError"
        /\ ~FaultOnLastEvent => (~ManifestWritten /\ ~ManifestWrittenEmitted)
        /\ FaultOnLastEvent => (ManifestWritten /\ ManifestWrittenEmitted)

\* extract_embeddings raises in a run with a callback.
C24_Witness ==
    /\ pc = "done" /\ raised = "CollaboratorError" /\ on_progress # None
    /\ log[Len(log)] = Call("extract_embeddings")
    /\ outcome = None

\* The callback raises on the second batch.
C24_WitnessCallback ==
    /\ pc = "done" /\ raised = "CallbackError"
    /\ log[Len(log)].name = "embed" /\ log[Len(log)].text = "processed/total"
    /\ Cardinality(EventIndicesOf("embed")) = 2

\* The callback raises on "Manifest written".
C24_WitnessLastEvent ==
    /\ pc = "done" /\ raised = "CallbackError" /\ FaultOnLastEvent
    /\ ManifestWritten /\ outcome = None

\* C25, as claimed: with output_manifest wired as output_manifest_fn, a run
\* whose discover, model, embed, similarity and cluster steps have succeeded
\* and in which nothing raises from outside ends with "Manifest written"
\* emitted and a PipelineOutcome returned.
C25_ShippedOutputStepSucceeds ==
    (/\ pc = "done"
     /\ env.output_manifest_fn = output_manifest
     /\ env.fault = None
     /\ \E i \in 1 .. Len(log) : IsEventAt(i, "cluster", "clusters found")) =>
        ManifestWrittenEmitted /\ outcome # None

-----------------------------------------------------------------------------
(* Claims about extract_embeddings, as the embed step calls it.             *)

\* extract_embeddings was called with a valid preprocess and pooling and a
\* batch_size >= 1, and nothing was raised from outside.
ExtractCalled ==
    /\ HasEntry(log, Call("extract_embeddings"))
    /\ env.fault = None
    /\ ValueOf(params).batch_size >= 1
    /\ ValueOf(params).pooling # None
    /\ ValueOf(ValueOf(params).pooling) \in VALID_POOLING_OPTIONS
    /\ ValueOf(params).preprocess # None
    /\ ValueOf(ValueOf(params).preprocess) \in VALID_PREPROCESS_OPTIONS
ExtractReturned == ExtractCalled /\ HasEntry(log, Return("extract_embeddings"))

\* C27: for every batch_size >= 1 and every set of images that load,
\* valid_indices is strictly increasing, holds exactly the indices of the
\* images that loaded and has one entry per embedding row; RuntimeError is
\* raised exactly when no image loads.
C27_ValidIndices ==
    /\ ExtractReturned =>
          /\ \A i, j \in 1 .. Len(valid_indices) :
                i < j => valid_indices[i] < valid_indices[j]
          /\ {valid_indices[k] : k \in 1 .. Len(valid_indices)} = env.loads
          /\ Len(embeddings) = Len(valid_indices)
          /\ \A k \in 1 .. Len(valid_indices) : embeddings[k] = env.rows[valid_indices[k]]
    /\ ExtractCalled =>
          /\ env.loads = {} <=> ~ExtractReturned
          /\ ~ExtractReturned <=> (pc = "done" /\ raised = "RuntimeError")

\* Three images in batches of two; the first and the last load.
C27_Witness ==
    /\ ExtractReturned /\ Len(discovered) = 3 /\ ValueOf(params).batch_size = 2
    /\ valid_indices = <<0, 2>>

\* No image of three loads.
C27_WitnessNoneLoads ==
    /\ ExtractCalled /\ Len(discovered) = 3 /\ env.loads = {}
    /\ raised = "RuntimeError"

IsBatchEvent(entry) == entry.kind = "event" /\ entry.text = "processed/total"
\* The calls of on_batch, in order.
BatchCalls == SelectSeq(log, IsBatchEvent)
IsEmbedEvent(entry) == entry.kind = "event" /\ entry.name = "embed"
EmbedEvents == SelectSeq(log, IsEmbedEvent)

\* The least c with c * batch_size >= total.
Ceiling(total, batch_size) ==
    CHOOSE c \in 0 .. total : c * batch_size >= total /\ (c - 1) * batch_size < total

\* C28: on_batch is called once per batch, ceil(total / batch_size) times,
\* also for a batch in which no image loads; processed increases strictly
\* from call to call and is total at the last call.  The "embed" events of a
\* run whose embed step has ended carry non-decreasing processed counts from
\* 0 to the number of discovered images.
C28_OnBatchOncePerBatch ==
    /\ (ExtractCalled /\ pc # "line166") =>
          /\ Len(BatchCalls) = Ceiling(Len(discovered), ValueOf(params).batch_size)
          /\ \A i, j \in 1 .. Len(BatchCalls) :
                i < j => BatchCalls[i].processed < BatchCalls[j].processed
          /\ \A i \in 1 .. Len(BatchCalls) : BatchCalls[i].total = Len(discovered)
          /\ BatchCalls # <<>> => BatchCalls[Len(BatchCalls)].processed = Len(discovered)
    /\ ExtractReturned =>
          /\ \A i, j \in 1 .. Len(EmbedEvents) :
                i < j => EmbedEvents[i].processed <= EmbedEvents[j].processed
          /\ EmbedEvents[1].processed = 0
          /\ EmbedEvents[Len(EmbedEvents)].processed = Len(discovered)

\* Three images in batches of two; no image of the first batch loads.
C28_Witness ==
    /\ ExtractReturned /\ Len(discovered) = 3 /\ ValueOf(params).batch_size = 2
    /\ env.loads = {2}
    /\ [i \in 1 .. Len(BatchCalls) |-> BatchCalls[i].processed] = <<2, 3>>

\* No image loads: on_batch is still called for every batch.
C28_WitnessNoneLoads ==
    /\ ExtractCalled /\ raised = "RuntimeError" /\ Len(discovered) = 3
    /\ ValueOf(params).batch_size = 1
    /\ [i \in 1 .. Len(BatchCalls) |-> BatchCalls[i].processed] = <<1, 2, 3>>

-----------------------------------------------------------------------------
(* Claims about build_pipeline_params.                                     *)

\* The display labels of the GUI with the value each stands for.
DisplayLabels ==
    {<<"device", "Auto", "auto">>, <<"device", "Apple GPU", "mps">>,
     <<"device", "CPU", "cpu">>,
     <<"pooling", "CLS", "cls">>, <<"pooling", "AVG", "avg">>,
     <<"pooling", "CLS+AVG", "cls+avg">>,
     <<"preprocess", "Letterbox", "letterbox">>, <<"preprocess", "TIMM", "timm">>,
     <<"preprocess", "TIMM (strict)", "timm">>,
     <<"linkage", "Average", "average">>, <<"linkage", "Complete", "complete">>,
     <<"linkage", "Single", "single">>}

OptionKeys == {"device", "pooling", "preprocess", "linkage"}
NumberKeys == ParameterKeys \ OptionKeys

ValidOptionsOf(key) ==
    CASE key = "device" -> VALID_DEVICE_OPTIONS
      [] key = "pooling" -> VALID_POOLING_OPTIONS
      [] key = "preprocess" -> VALID_PREPROCESS_OPTIONS
      [] key = "linkage" -> VALID_LINKAGE_OPTIONS

LabelsOf(key) == {t[2] : t \in {u \in DisplayLabels : u[1] = key}}

\* The dict that has every keyword argument as its value.
AsParameters(a) == [key \in ParameterKeys |-> Some(a[key])]

Built == pc = "done" /\ parameters # <<>>

\* C22: build_pipeline_params maps every display label to its value, leaves
\* a valid value as it is (building again from what was built changes
\* nothing), takes a missing key from DEFAULTS, and returns only what
\* validate_pipeline_parameters accepts: an option that is neither a label
\* nor a valid value raises PipelineArgumentError.
C22_LabelsNormalisedAndValidated ==
    Built =>
        /\ \A t \in DisplayLabels :
              parameters[t[1]] = Some(Some(t[2])) => args[t[1]] = Some(t[3])
        /\ \A key \in OptionKeys : \A o \in ValidOptionsOf(key) :
              parameters[key] = Some(Some(o)) => args[key] = Some(o)
        /\ build_pipeline_params_kwargs(AsParameters(args)) = args
        /\ \A key \in OptionKeys :
              parameters[key] = None => args[key] = Some(DEFAULTS[key])
        /\ \A key \in NumberKeys :
              parameters[key] = None => args[key] = DEFAULTS[key]
        /\ params # None =>
              /\ raised = NoError
              /\ ValueOf(params) = args
              /\ validate_pipeline_parameters(ValueOf(params)) = NoError
              /\ (\A key \in OptionKeys : args[key] # None)
                    => ValidConfiguration(ValueOf(params))
        /\ params = None => raised = "PipelineArgumentError"
        /\ \A key \in OptionKeys : \A v \in parameters[key] :
              (v # None /\ ValueOf(v) \notin ValidOptionsOf(key) \cup LabelsOf(key))
                  => params = None /\ raised = "PipelineArgumentError"

\* Labels, a valid value and missing keys in one dict.
C22_Witness ==
    /\ Built
    /\ parameters.device = Some(Some("Apple GPU"))
    /\ parameters.preprocess = Some(Some("TIMM (strict)"))
    /\ parameters.pooling = Some(Some("cls+avg"))
    /\ parameters.linkage = None
    /\ parameters.batch_size = None
    /\ params # None
    /\ ValueOf(params).device = Some("mps")
    /\ ValueOf(params).preprocess = Some("timm")
    /\ ValueOf(params).batch_size = 16

\* An unknown label.
C22_WitnessUnknownLabel ==
    /\ Built
    /\ parameters.pooling = Some(Some("invalid"))
    /\ parameters.distance_threshold = Some(FixOne \div 2)
    /\ parameters.batch_size = None
    /\ parameters.temporal_weight = None
    /\ raised = "PipelineArgumentError"

-----------------------------------------------------------------------------
(* Claims about the JSON Lines CLI.                                        *)

\* _on_progress, cli_json.py lines 45-53: the progress message of one event.
ProgressMessage(event) ==
    [type |-> "progress", step |-> event.name, detail |-> event.text,
     processed |-> event.processed, total |-> event.total]

\* Everything written to stdout, in order: the progress messages are written
\* during the run, the messages of _handle_run after it.
JsonLines == [i \in 1 .. Len(Delivered) |-> ProgressMessage(Delivered[i])] \o stdout

MessagesOfType(type) == {i \in 1 .. Len(JsonLines) : JsonLines[i].type = type}

Exited == pc = "exited"

\* The pipeline, run_pipeline_with_progress, was called and raised.
PipelineRaised == Exited /\ params # None /\ raised # NoError
\* It was called and returned.
PipelineReturned == Exited /\ params # None /\ raised = NoError

\* C21: when the pipeline raises, _handle_run emits exactly one 'error'
\* message carrying the exception text and no 'complete' message, and exits
\* with status 1; when the pipeline returns, the last message is the only
\* 'complete', it carries outcome.manifest_path, and there is no 'error'.
C21_ErrorOrComplete ==
    /\ PipelineRaised =>
          /\ Cardinality(MessagesOfType("error")) = 1
          /\ \A i \in MessagesOfType("error") : JsonLines[i].text = raised
          /\ MessagesOfType("complete") = {}
          /\ exit_status = Some(1)
    /\ PipelineReturned =>
          /\ MessagesOfType("complete") = {Len(JsonLines)}
          /\ JsonLines[Len(JsonLines)].text = ValueOf(outcome).manifest_path
          /\ MessagesOfType("error") = {}

\* A collaborator raises after progress messages were written.
C21_Witness ==
    /\ PipelineRaised
    /\ raised = "CollaboratorError"
    /\ MessagesOfType("progress") # {}
    /\ JsonLines[Len(JsonLines)].type = "error"

\* The shipped output function rejects the preprocess keyword (see C25).
C21_WitnessTypeError ==
    /\ PipelineRaised
    /\ raised = "TypeError"
    /\ JsonLines[Len(JsonLines)] = Message("error", "TypeError")

\* The run returns and 'complete' follows the progress messages.
C21_WitnessComplete ==
    /\ PipelineReturned
    /\ Len(JsonLines) > 1
    /\ JsonLines[Len(JsonLines)] = Message("complete", "manifest.json")
    /\ exit_status = Some(0)

TerminalMessageIndices == MessagesOfType("complete") \cup MessagesOfType("error")

\* C26, as claimed: every invocation ends with exactly one message of type
\* 'complete' or 'error' on stdout, also when an argument is out of range.
C26_OneTerminalMessage ==
    Exited => TerminalMessageIndices = {Len(JsonLines)} /\ Len(JsonLines) > 0

-----------------------------------------------------------------------------
(* Claims about discover_images.                                           *)

\* C30, as claimed: two runs over the same directory return the same list,
\* in whatever order the directory is listed in each, so every photo has the
\* same original index in both.
C30_SameOrderInBothRuns ==
    Len(found) = 2 => found[1] = found[2]

====
